---- MODULE Spec2Model ----
(***************************************************************************)
(* Versioned schema catalog of src/service/db/schema.rs: the backing store *)
(* of schema versions, the four cache maps (STREAM_SCHEMAS,                *)
(* STREAM_SCHEMAS_LATEST, STREAM_SETTINGS, STREAM_RECORD_ID_GENERATOR),    *)
(* the bulk loader cache(), the reconciliation engine watch() and the      *)
(* service-level deletion stream_delete_inner() of src/service/stream.rs.  *)
(*                                                                         *)
(* A '/'-delimited string is represented by the sequence of its segments:  *)
(* "/schema/o1/logs/s1/2" is <<"", "schema", "o1", "logs", "s1", "2">>.    *)
(***************************************************************************)
EXTENDS Integers, Sequences, FiniteSets, TLC

\* ------------------------------------------------------------------ bounds
\* Largest start_dt (microsecond timestamp) of the model.
MaxDt == 2
\* Number of mutations (version writes and removals) of the backing store.
MaxWrites == 3
\* Number of record ids drawn from one generator.
MaxIds == 1

StartDts == 1..MaxDt

\* --------------------------------------------------------------- options
None == <<>>
Some(x) == <<x>>

\* ------------------------------------------------- schemas and settings
\* A Schema carries its fields and, in its metadata, an optional settings
\* blob; only the two original-data flags of the settings are modelled.
NoSettingsMeta == [present |-> FALSE, store_original_data |-> FALSE, index_original_data |-> FALSE]
SettingsMeta(sod, iod) == [present |-> TRUE, store_original_data |-> sod, index_original_data |-> iod]

S1 == [fields |-> "a", settings |-> NoSettingsMeta]
S2 == [fields |-> "ab", settings |-> SettingsMeta(TRUE, FALSE)]
S3 == [fields |-> "abc", settings |-> SettingsMeta(FALSE, TRUE)]

\* StreamSettings::default()
DefaultSettings == [store_original_data |-> FALSE, index_original_data |-> FALSE]

\* unwrap_stream_settings(schema): the settings parsed from the metadata,
\* None when the metadata carries no settings.
unwrap_stream_settings(schema) ==
    IF schema.settings.present
    THEN Some([store_original_data |-> schema.settings.store_original_data,
               index_original_data |-> schema.settings.index_original_data])
    ELSE None

unwrap_or_default(opt, default) == IF opt = None THEN default ELSE opt[1]

\* --------------------------------------------------------------- payloads
\* The stored bytes of one start_dt bucket: a JSON array of schemas, or
\* bytes that do not decode.
Bytes(list) == [ok |-> TRUE, list |-> list]
BadBytes == [ok |-> FALSE, list |-> <<>>]
Payloads == {BadBytes, Bytes(<<>>), Bytes(<<S1, S2>>), Bytes(<<S2, S3>>), Bytes(<<S3, S1>>)}

\* json::from_slice::<Vec<Schema>>: Ok(list) or Err.
from_slice(bytes) == IF bytes.ok THEN [ok |-> TRUE, val |-> bytes.list] ELSE [ok |-> FALSE, val |-> <<>>]

\* ------------------------------------------------------------------- keys
K1 == <<"o1", "logs", "s1">>
K2 == <<"o1", "enrichment_tables", "t1">>
ItemKeys == {K1, K2}
\* The streams versions are written for and events arrive for.
StoredKeys == {K1}

\* The decimal text of a start_dt, and str::parse::<i64>.
DtText(n) == ToString(n)
ParsesAsI64(seg) == \E n \in 0..MaxDt : DtText(n) = seg
ParseI64(seg) == CHOOSE n \in 0..MaxDt : DtText(n) = seg
ParseOrDefault(seg) == IF ParsesAsI64(seg) THEN ParseI64(seg) ELSE 0

\* "/schema/{org}/{type}/{name}" as segments.
SchemaKey(k) == <<"", "schema">> \o k
\* key.strip_prefix("/schema/").unwrap()
strip_prefix(key) == SubSeq(key, 3, Len(key))

\* ------------------------------------------------------------------- maps
EmptyMap == [x \in {} |-> x]
\* infra::schema::set_stream_settings_atomic(w.clone()): the value the
\* mirrored snapshot holds after the call.
set_stream_settings_atomic(w) == w
MapInsert(m, k, v) == [x \in (DOMAIN m) \cup {k} |-> IF x = k THEN v ELSE m[x]]
MapRemove(m, k) == [x \in (DOMAIN m) \ {k} |-> m[x]]

VARIABLES
    db,                          \* backing store: item key -> (start_dt -> bytes)
    writes,                      \* store mutations made so far
    engine,                      \* "init", "cache", "watch", "failed", "panicked", "closed"
    load_keys,                   \* keys cache() has still to install
    STREAM_SCHEMAS,              \* VersionHistory: item key -> <<start_dt, schema>>*
    STREAM_SCHEMAS_LATEST,       \* LatestSchema: item key -> schema
    STREAM_SETTINGS,             \* Settings: item key -> settings
    STREAM_SETTINGS_ATOMIC,      \* mirrored settings snapshot
    STREAM_RECORD_ID_GENERATOR,  \* item key -> generator
    last,                        \* the operation on the cache maps executed last
    pending,                     \* feed of the writes whose Put event is not yet applied
    call,                        \* a function called on its own: arguments and return value
    inflight,                    \* events the engine has read and not finished applying
    ENRICHMENT_TABLES,           \* item key -> loaded enrichment table
    enrich,                      \* the run of cache_enrichment_tables(): position, tables
    queriers,                    \* online interactive querier nodes
    deleting,                    \* a run of stream_delete_inner: position, key
    file_cache,                  \* a CacheStrategy of the file-data cache
    local_delete                 \* a run of Local::delete: position, attempts

caches == <<STREAM_SCHEMAS, STREAM_SCHEMAS_LATEST, STREAM_SETTINGS,
            STREAM_SETTINGS_ATOMIC, STREAM_RECORD_ID_GENERATOR>>
vars == <<db, writes, engine, load_keys, STREAM_SCHEMAS, STREAM_SCHEMAS_LATEST,
          STREAM_SETTINGS, STREAM_SETTINGS_ATOMIC, STREAM_RECORD_ID_GENERATOR,
          last, pending, call, inflight, ENRICHMENT_TABLES, enrich, queriers,
          deleting, file_cache, local_delete>>
\* The state of the step-wise engine and of the enrichment-table loader.
others == <<deleting, file_cache, local_delete>>
aside == <<inflight, ENRICHMENT_TABLES, enrich, queriers, others>>

\* The cache maps as one value, for the handlers written as functions.
Cache == [schemas |-> STREAM_SCHEMAS, latest |-> STREAM_SCHEMAS_LATEST,
          settings |-> STREAM_SETTINGS, atomic |-> STREAM_SETTINGS_ATOMIC,
          gen |-> STREAM_RECORD_ID_GENERATOR]

\* ---------------------------------------------------------- backing store
\* now_micros(): the clock is never behind a stored start_dt.
now_micros == MaxDt

RECURSIVE SortedSeq(_)
SortedSeq(S) ==
    IF S = {} THEN <<>>
    ELSE LET m == CHOOSE x \in S : \A y \in S : x <= y
         IN <<m>> \o SortedSeq(S \ {m})

\* db::list_values_by_start_dt(prefix, ts_range): the (start_dt, bytes) rows
\* under "{ev_key}/", in the closed range when one is given, by ascending
\* start_dt.
list_values_by_start_dt(d, ev_key, range) ==
    LET item_key == strip_prefix(ev_key)
        stored == IF item_key \in DOMAIN d THEN DOMAIN d[item_key] ELSE {}
        inrange == IF range = None THEN stored
                   ELSE {dt \in stored : range[1][1] <= dt /\ dt <= range[1][2]}
        order == SortedSeq(inrange)
    IN [i \in 1..Len(order) |-> <<order[i], d[item_key][order[i]]>>]

\* ------------------------------------------------- reconciliation: Put
\* SnowflakeIdGenerator::new(LOCAL_NODE_ID): no id issued yet.
NewGenerator == [issued |-> 0]

\* The event key and start_dt decoded from a Put event.
put_ev_key(ev) == IF Len(ev.key) > 5 THEN SubSeq(ev.key, 1, 5) ELSE ev.key
\* Mutant: the start_dt is always taken from the event's field.
put_ev_start_dt_field_only(ev) == unwrap_or_default(ev.start_dt, 0)

put_ev_start_dt(ev) ==
    IF Len(ev.key) > 5 THEN ParseOrDefault(ev.key[6])
    ELSE unwrap_or_default(ev.start_dt, 0)

\* Mutant: 0 when fewer than two entries are cached.
prev_start_dt_zero_below_two(schemas_map, item_key) ==
    IF item_key \in DOMAIN schemas_map /\ Len(schemas_map[item_key]) >= 2
    THEN schemas_map[item_key][Len(schemas_map[item_key]) - 1][1]
    ELSE 0

\* The start_dt of the second-to-last cached entry; of the only entry when
\* one is cached; 0 for an unseen key.
prev_start_dt(schemas_map, item_key) ==
    IF item_key \in DOMAIN schemas_map
    THEN LET schemas == schemas_map[item_key]
             idx == IF Len(schemas) >= 2 THEN Len(schemas) - 2 ELSE 0
         IN schemas[idx + 1][1]
    ELSE 0

\* Mutant: the range always starts at the event's start_dt.
ts_range_from_event(ev_start_dt, prev) ==
    IF ev_start_dt = 0 /\ prev = 0 THEN None ELSE Some(<<ev_start_dt, now_micros>>)

ts_range(ev_start_dt, prev) ==
    IF ev_start_dt = 0 /\ prev = 0 THEN None
    ELSE IF ev_start_dt = 0 \/ (prev > 0 /\ ev_start_dt > prev)
         THEN Some(<<prev, now_micros>>)
         ELSE Some(<<ev_start_dt, now_micros>>)

\* Mutant: index_original_data is not looked at.
needs_record_id_store_only(settings) == settings.store_original_data

\* settings.store_original_data || settings.index_original_data
needs_record_id(settings) == settings.store_original_data \/ settings.index_original_data

\* Mutant: the generator is inserted whether or not one is registered.
ensure_generator_overwrites(gen, item_key, settings) ==
    IF needs_record_id(settings) THEN MapInsert(gen, item_key, NewGenerator) ELSE gen

\* Mutant: the generator is dropped when the settings ask for none.
ensure_generator_drops_when_off(gen, item_key, settings) ==
    IF needs_record_id(settings)
    THEN (IF item_key \notin DOMAIN gen THEN MapInsert(gen, item_key, NewGenerator) ELSE gen)
    ELSE MapRemove(gen, item_key)

\* The generator registry after the insert-if-vacant of a handler.
ensure_generator(gen, item_key, settings) ==
    IF needs_record_id(settings) /\ item_key \notin DOMAIN gen
    THEN MapInsert(gen, item_key, NewGenerator)
    ELSE gen

\* Mutant: nothing is removed before the fetched versions are appended.
retain_keeps_all(existing_vec, schema_versions) == existing_vec

\* Mutant: the snapshots of the pairs are compared.
retain_by_snapshot(existing_vec, schema_versions) ==
    SelectSeq(existing_vec,
              LAMBDA x : \A i \in 1..Len(schema_versions) : schema_versions[i][2] # x[2])

\* existing_vec.retain(|(v, _)| schema_versions.iter().all(|(v1, _)| v1 != v)):
\* v and v1 are the start_dt components of the pairs.
retain(existing_vec, schema_versions) ==
    SelectSeq(existing_vec,
              LAMBDA x : \A i \in 1..Len(schema_versions) : schema_versions[i][1] # x[1])

\* Mutant: the fetched versions replace the history.
merge_versions_replaces(schemas_map, item_key, schema_versions) ==
    MapInsert(schemas_map, item_key, schema_versions)

\* w.entry(item_key).and_modify(retain; extend).or_insert(schema_versions)
merge_versions(schemas_map, item_key, schema_versions) ==
    IF item_key \in DOMAIN schemas_map
    THEN MapInsert(schemas_map, item_key,
                   retain(schemas_map[item_key], schema_versions) \o schema_versions)
    ELSE MapInsert(schemas_map, item_key, schema_versions)

\* A fetched row decodes when its bytes parse to a non-empty list
\* (from_slice(..).unwrap().pop().unwrap() panics otherwise).
row_decodes(row) == from_slice(row[2]).ok /\ from_slice(row[2]).val # <<>>
\* Mutant: the first snapshot of the list is taken.
decode_row_first(row) == LET list == from_slice(row[2]).val IN <<row[1], list[1]>>

decode_row(row) == LET list == from_slice(row[2]).val IN <<row[1], list[Len(list)]>>

\* Mutant: the settings of a key already in STREAM_SETTINGS are kept.
publish_latest_keeps_settings(c, item_key, latest_schema) ==
    LET settings == unwrap_or_default(unwrap_stream_settings(latest_schema), DefaultSettings)
        w == IF item_key \in DOMAIN c.settings THEN c.settings
             ELSE MapInsert(c.settings, item_key, settings)
    IN [c EXCEPT !.gen = ensure_generator(c.gen, item_key, settings),
                 !.settings = w,
                 !.atomic = w,
                 !.latest = MapInsert(c.latest, item_key, latest_schema)]

\* Settings and the mirrored snapshot, then LatestSchema, are published for
\* item_key; the generator is registered first.
publish_latest(c, item_key, latest_schema) ==
    LET settings == unwrap_or_default(unwrap_stream_settings(latest_schema), DefaultSettings)
        w == MapInsert(c.settings, item_key, settings)
    IN [c EXCEPT !.gen = ensure_generator(c.gen, item_key, settings),
                 !.settings = w,
                 !.atomic = set_stream_settings_atomic(w),
                 !.latest = MapInsert(c.latest, item_key, latest_schema)]

\* The Put arm of watch(), up to the write of STREAM_SCHEMAS: the cache it
\* leaves and how the event ended ("applied", "skipped", "panic").
put_event(c, d, ev, list_ok) ==
    LET ev_key == put_ev_key(ev)
        ev_start_dt == put_ev_start_dt(ev)
        item_key == strip_prefix(ev_key)
        prev == prev_start_dt(c.schemas, item_key)
        schema_versions == list_values_by_start_dt(d, ev_key, ts_range(ev_start_dt, prev))
        n == Len(schema_versions)
        latest_list == from_slice(schema_versions[n][2])
        latest_schema == latest_list.val[Len(latest_list.val)]
        published == publish_latest(c, item_key, latest_schema)
        decoded == [i \in 1..n |-> IF i = n THEN <<schema_versions[n][1], latest_schema>>
                                   ELSE decode_row(schema_versions[i])]
    IN IF item_key \in DOMAIN c.schemas /\ c.schemas[item_key] = <<>>
       THEN [outcome |-> "panic", c |-> c]
       ELSE IF ~list_ok \/ n = 0 \/ ~latest_list.ok \/ latest_list.val = <<>>
       THEN [outcome |-> "skipped", c |-> c]
       ELSE IF \E i \in 1..(n - 1) : ~row_decodes(schema_versions[i])
       THEN [outcome |-> "panic", c |-> published]
       ELSE [outcome |-> "applied",
             c |-> [published EXCEPT !.schemas = merge_versions(c.schemas, item_key, decoded)]]

\* ---------------------------------------------- reconciliation: Delete
\* Mutant: the start_dt column is not looked at.
delete_start_dt_ignored(item_key) == 0

\* The start_dt of a Delete event: the fourth column of the item key when
\* there is one and it parses, else 0.
delete_start_dt(item_key) == IF Len(item_key) >= 4 THEN ParseOrDefault(item_key[4]) ELSE 0

\* Mutant: the generator registry is left alone.
remove_key_keeps_generator(c, key) ==
    LET w == MapRemove(c.settings, key)
    IN [schemas |-> MapRemove(c.schemas, key),
        latest |-> MapRemove(c.latest, key),
        gen |-> c.gen,
        settings |-> w,
        atomic |-> w]

\* Mutant: STREAM_SETTINGS and its mirror are left alone.
remove_key_keeps_settings(c, key) ==
    [schemas |-> MapRemove(c.schemas, key),
     latest |-> MapRemove(c.latest, key),
     gen |-> MapRemove(c.gen, key),
     settings |-> c.settings,
     atomic |-> c.atomic]

\* Mutant: the mirrored snapshot is not republished.
remove_key_keeps_mirror(c, key) ==
    [schemas |-> MapRemove(c.schemas, key),
     latest |-> MapRemove(c.latest, key),
     gen |-> MapRemove(c.gen, key),
     settings |-> MapRemove(c.settings, key),
     atomic |-> c.atomic]

\* The four removals of a full deletion, each under the given map key.
remove_key(c, key) ==
    LET w == MapRemove(c.settings, key)
    IN [schemas |-> MapRemove(c.schemas, key),
        latest |-> MapRemove(c.latest, key),
        gen |-> MapRemove(c.gen, key),
        settings |-> w,
        atomic |-> set_stream_settings_atomic(w)]

\* The cleanup steps a full deletion attempts, in order.
delete_cleanup(item_key, dir_on_local_disk) ==
    <<"remove_stream_stats", "del_offset">>
    \o (IF item_key[2] = "enrichment_tables" /\ dir_on_local_disk THEN <<"remove_dir_all">> ELSE <<>>)
    \o (IF item_key[2] = "enrichment_tables" THEN <<"enrichment_local_cache_delete">> ELSE <<>>)

\* The cleanup calls that return a Result.
FallibleCleanup == {"del_offset", "remove_dir_all", "enrichment_local_cache_delete"}

\* Mutant: the first failing cleanup call ends the cleanup.
RECURSIVE run_cleanup_stops_at_failure(_, _)
run_cleanup_stops_at_failure(steps, fails) ==
    IF steps = <<>> THEN <<>>
    ELSE IF Head(steps) \in fails THEN <<[what |-> Head(steps), ok |-> FALSE]>>
    ELSE <<[what |-> Head(steps), ok |-> TRUE]>> \o run_cleanup_stops_at_failure(Tail(steps), fails)

\* The cleanup calls of the Delete arm as they run: an Err is logged by
\* `if let Err(e)` and the next call follows.
RECURSIVE run_cleanup(_, _)
run_cleanup(steps, fails) ==
    IF steps = <<>> THEN <<>>
    ELSE <<[what |-> Head(steps), ok |-> Head(steps) \notin fails]>>
             \o run_cleanup(Tail(steps), fails)

\* The Delete arm of watch().
delete_event(c, ev, dir_on_local_disk) ==
    LET item_key == strip_prefix(ev.key)
    IN IF delete_start_dt(item_key) > 0
       THEN [outcome |-> "version", c |-> c, cleanup |-> <<>>]
       ELSE [outcome |-> "full", c |-> remove_key(c, item_key),
             cleanup |-> delete_cleanup(item_key, dir_on_local_disk)]

\* ------------------------------------------------------------ bulk load
\* One iteration of the key loop of cache(): "installed", "skipped" (empty
\* latest list), "failed" (the latest bytes do not parse: cache() returns the
\* error) or "panic" (a version fails to decode after the latest was
\* published).
cache_item(c, d, item_key) ==
    LET schema_versions == list_values_by_start_dt(d, SchemaKey(item_key), None)
        n == Len(schema_versions)
        latest_list == from_slice(schema_versions[n][2])
        latest_schema == latest_list.val[Len(latest_list.val)]
        published == publish_latest(c, item_key, latest_schema)
        decoded == [i \in 1..n |-> decode_row(schema_versions[i])]
    IN IF n = 0 THEN [outcome |-> "skipped", c |-> c]
       ELSE IF ~latest_list.ok THEN [outcome |-> "failed", c |-> c]
       ELSE IF latest_list.val = <<>> THEN [outcome |-> "skipped", c |-> c]
       ELSE IF \E i \in 1..n : ~row_decodes(schema_versions[i])
       THEN [outcome |-> "panic", c |-> published]
       ELSE [outcome |-> "installed",
             c |-> [published EXCEPT !.schemas = MapInsert(c.schemas, item_key, decoded)]]

\* The Delete arm with the answers of its cleanup calls: the cache it
\* leaves, the calls made, and where the task is afterwards (the top of the
\* loop).
delete_arm(c, ev, dir_on_local_disk, fails) ==
    LET r == delete_event(c, ev, dir_on_local_disk)
    IN [outcome |-> r.outcome, c |-> r.c,
        trace |-> run_cleanup(r.cleanup, fails), engine |-> "watch"]

\* ------------------------------------------------ service-level deletion
\* stream_delete_inner: nothing is removed when the retention job cannot be
\* created.
stream_delete_inner_cache(c, key, retention_ok) ==
    IF retention_ok THEN remove_key(c, key) ELSE c

\* Mutant: the key is removed before the retention job is created.
stream_delete_inner_removes_first(c, key, assoc_ok, retention_ok, offset_ok) ==
    [ret |-> IF ~assoc_ok THEN "Err(associations)"
             ELSE IF ~retention_ok THEN "Err(retention)"
             ELSE IF ~offset_ok THEN "Err(del_offset)" ELSE "Ok",
     c |-> IF assoc_ok THEN remove_key(c, key) ELSE c]

\* stream_delete_inner run alone, with the answers of its collaborators:
\* what it returns and the cache it leaves.
stream_delete_inner_call(c, key, assoc_ok, retention_ok, offset_ok) ==
    [ret |-> IF ~assoc_ok THEN "Err(associations)"
             ELSE IF ~retention_ok THEN "Err(retention)"
             ELSE IF ~offset_ok THEN "Err(del_offset)" ELSE "Ok",
     c |-> stream_delete_inner_cache(c, key, assoc_ok /\ retention_ok)]

\* ----------------------------------------------------------------- events
DtSegments == {DtText(n) : n \in 0..MaxDt} \cup {"x"}
PutEvents ==
    {[key |-> SchemaKey(k) \o <<seg>>, start_dt |-> None] : k \in StoredKeys, seg \in DtSegments}
    \cup {[key |-> SchemaKey(k), start_dt |-> None] : k \in StoredKeys}
    \cup {[key |-> SchemaKey(k), start_dt |-> Some(n)] : k \in StoredKeys, n \in 0..MaxDt}
DeleteEvents ==
    {[key |-> SchemaKey(k)] : k \in StoredKeys}
    \cup {[key |-> SchemaKey(k) \o <<seg>>] : k \in StoredKeys, seg \in DtSegments}

\* ------------------------------------------------------------------ state
SetCache(c) ==
    /\ STREAM_SCHEMAS' = c.schemas
    /\ STREAM_SCHEMAS_LATEST' = c.latest
    /\ STREAM_SETTINGS' = c.settings
    /\ STREAM_SETTINGS_ATOMIC' = c.atomic
    /\ STREAM_RECORD_ID_GENERATOR' = c.gen

\* What the operation was, how it ended, and whether its key was cached and
\* had a generator when it started.
Did(op, key, outcome) ==
    last' = [op |-> op, key |-> key, outcome |-> outcome,
             had_schema |-> key \in DOMAIN STREAM_SCHEMAS_LATEST,
             had_gen |-> key \in DOMAIN STREAM_RECORD_ID_GENERATOR]

\* No event is being applied step by step, cache_enrichment_tables() has
\* not started and no querier node is online.
OthersIdle ==
    /\ deleting = [pc |-> "idle"]
    /\ file_cache = [strategy |-> "none"]
    /\ local_delete = [pc |-> "idle"]

AsideIdle ==
    /\ inflight = <<>>
    /\ ENRICHMENT_TABLES = EmptyMap
    /\ enrich = [pc |-> "idle", found |-> {}, tables |-> {}, expect |-> 0, observed |-> -1]
    /\ queriers = 0
    /\ OthersIdle

\* No function is being called on its own.
NoCall == [fn |-> "none", done |-> TRUE]

Init ==
    /\ db = [k \in ItemKeys |-> EmptyMap]
    /\ writes = 0
    /\ engine = "init"
    /\ load_keys = {}
    /\ STREAM_SCHEMAS = EmptyMap
    /\ STREAM_SCHEMAS_LATEST = EmptyMap
    /\ STREAM_SETTINGS = EmptyMap
    /\ STREAM_SETTINGS_ATOMIC = EmptyMap
    /\ STREAM_RECORD_ID_GENERATOR = EmptyMap
    /\ last = [op |-> "init", key |-> <<>>, outcome |-> "ok",
               had_schema |-> FALSE, had_gen |-> FALSE]
    /\ pending = <<>>
    /\ call = NoCall
    /\ AsideIdle

\* --------------------------------------------------- backing-store writes
\* The durable write of merge / update_setting / delete_fields: the bytes of
\* one start_dt bucket are stored. No cache map is touched. Writes made
\* while cache() runs are not in its listing and are taken after it.
store_put(k, dt, bytes) ==
    /\ writes < MaxWrites
    /\ engine \in {"init", "watch"}
    /\ db' = [db EXCEPT ![k] = MapInsert(db[k], dt, bytes)]
    /\ writes' = writes + 1
    /\ UNCHANGED <<engine, load_keys, caches, last, call, aside>>

schema_put(k, dt, bytes) == store_put(k, dt, bytes) /\ UNCHANGED pending

\* The durable removal of one version.
schema_delete_version(k, dt) ==
    /\ writes < MaxWrites
    /\ engine \in {"init", "watch"}
    /\ dt \in DOMAIN db[k]
    /\ db' = [db EXCEPT ![k] = MapRemove(db[k], dt)]
    /\ writes' = writes + 1
    /\ UNCHANGED <<engine, load_keys, caches, last, pending, call, aside>>

\* delete(): every version of the stream is removed from the store; no
\* cache map is touched.
\* Mutant: delete also drops the key from the cache maps.
delete_drops_cache(k) ==
    /\ writes < MaxWrites
    /\ engine \in {"init", "watch"}
    /\ DOMAIN db[k] # {}
    /\ db' = [db EXCEPT ![k] = EmptyMap]
    /\ writes' = writes + 1
    /\ SetCache(remove_key(Cache, k))
    /\ UNCHANGED <<engine, load_keys, last, pending, call, aside>>

delete(k) ==
    /\ writes < MaxWrites
    /\ engine \in {"init", "watch"}
    /\ DOMAIN db[k] # {}
    /\ db' = [db EXCEPT ![k] = EmptyMap]
    /\ writes' = writes + 1
    /\ UNCHANGED <<engine, load_keys, caches, last, pending, call, aside>>

\* -------------------------------------------------------------- bulk load
\* cache(): the catalog is listed and grouped by item key.
cache_list ==
    /\ engine = "init"
    /\ engine' = "cache"
    /\ load_keys' = {k \in ItemKeys : DOMAIN db[k] # {}}
    /\ UNCHANGED <<db, writes, caches, last, pending, call, aside>>

\* One iteration of the key loop, in the map's iteration order (any).
cache_key(k) ==
    /\ engine = "cache"
    /\ k \in load_keys
    /\ LET r == cache_item(Cache, db, k)
       IN /\ SetCache(r.c)
          /\ engine' = CASE r.outcome = "failed" -> "failed"
                         [] r.outcome = "panic" -> "panicked"
                         [] OTHER -> "cache"
          /\ Did("cache", k, r.outcome)
    /\ load_keys' = load_keys \ {k}
    /\ UNCHANGED <<db, writes, pending, call, aside>>

\* The loop is over: cache() returns Ok and watch() takes over.
cache_done ==
    /\ engine = "cache"
    /\ load_keys = {}
    /\ engine' = "watch"
    /\ UNCHANGED <<db, writes, load_keys, caches, last, pending, call, aside>>

\* ------------------------------------------------------------------ watch
\* One Put event, applied whole. (check_and_create_org, called last, acts on
\* the organization table only.)
apply_put(ev, list_ok) ==
    /\ engine = "watch"
    /\ LET r == put_event(Cache, db, ev, list_ok)
       IN /\ SetCache(r.c)
          /\ engine' = IF r.outcome = "panic" THEN "panicked" ELSE "watch"
          /\ Did("Put", strip_prefix(put_ev_key(ev)), r.outcome)
    /\ UNCHANGED <<db, writes, load_keys, call, aside>>

watch_put(ev, list_ok) == apply_put(ev, list_ok) /\ UNCHANGED pending

\* One Delete event, applied whole.
watch_delete(ev) ==
    /\ engine = "watch"
    /\ LET r == delete_event(Cache, ev, TRUE)
       IN /\ SetCache(r.c)
          /\ Did("Delete", strip_prefix(ev.key), r.outcome)
    /\ UNCHANGED <<db, writes, engine, load_keys, pending, call, aside>>

\* events.recv() gives None: the closure is logged as an error, the loop is
\* left and watch() returns Ok(()).
channel_closed ==
    /\ engine = "watch"
    /\ engine' = "closed"
    /\ Did("closed", <<>>, "Ok")
    /\ UNCHANGED <<db, writes, load_keys, caches, pending, call, aside>>

\* ------------------------------------------------- other cache mutators
stream_delete_inner(k, retention_ok) ==
    /\ engine \in {"watch", "panicked", "closed"}
    /\ SetCache(stream_delete_inner_cache(Cache, k, retention_ok))
    /\ Did("stream_delete_inner", k, IF retention_ok THEN "removed" ELSE "err")
    /\ UNCHANGED <<db, writes, engine, load_keys, pending, call, aside>>

\* Ingestion draws a record id from the stream's generator.
generate(k) ==
    /\ k \in DOMAIN STREAM_RECORD_ID_GENERATOR
    /\ STREAM_RECORD_ID_GENERATOR[k].issued < MaxIds
    /\ STREAM_RECORD_ID_GENERATOR' =
           [STREAM_RECORD_ID_GENERATOR EXCEPT ![k].issued = @ + 1]
    /\ Did("generate", k, "ok")
    /\ UNCHANGED <<db, writes, engine, load_keys, STREAM_SCHEMAS,
                   STREAM_SCHEMAS_LATEST, STREAM_SETTINGS, STREAM_SETTINGS_ATOMIC, pending,
                   call, aside>>

Next ==
    \/ \E k \in StoredKeys, dt \in StartDts, bytes \in Payloads : schema_put(k, dt, bytes)
    \/ \E k \in StoredKeys, dt \in StartDts : schema_delete_version(k, dt)
    \/ \E k \in StoredKeys : delete(k)
    \/ cache_list
    \/ \E k \in ItemKeys : cache_key(k)
    \/ cache_done
    \/ \E ev \in PutEvents, list_ok \in BOOLEAN : watch_put(ev, list_ok)
    \/ \E ev \in DeleteEvents : watch_delete(ev)
    \/ channel_closed
    \/ \E k \in StoredKeys, r \in BOOLEAN : stream_delete_inner(k, r)
    \/ \E k \in ItemKeys : generate(k)

Spec == Init /\ [][Next]_vars

\* ------------------------------------------------ Put events only
\* watch() is running over a catalog that cache() found empty.
InitWatching ==
    /\ db = [k \in ItemKeys |-> EmptyMap]
    /\ writes = 0
    /\ engine = "watch"
    /\ load_keys = {}
    /\ STREAM_SCHEMAS = EmptyMap
    /\ STREAM_SCHEMAS_LATEST = EmptyMap
    /\ STREAM_SETTINGS = EmptyMap
    /\ STREAM_SETTINGS_ATOMIC = EmptyMap
    /\ STREAM_RECORD_ID_GENERATOR = EmptyMap
    /\ last = [op |-> "init", key |-> <<>>, outcome |-> "ok",
               had_schema |-> FALSE, had_gen |-> FALSE]
    /\ pending = <<>>
    /\ call = NoCall
    /\ AsideIdle

\* The store gains and loses versions; the engine sees Put events only.
NextPuts ==
    \/ \E k \in StoredKeys, dt \in StartDts, bytes \in Payloads : schema_put(k, dt, bytes)
    \/ \E k \in StoredKeys, dt \in StartDts : schema_delete_version(k, dt)
    \/ \E ev \in PutEvents, list_ok \in BOOLEAN : watch_put(ev, list_ok)

SpecPuts == InitWatching /\ [][NextPuts]_vars

\* ------------------------------------- every write followed by its event
\* A durable write stores a decodable, non-empty snapshot list and queues
\* its Put event.
sync_write(k, dt, bytes) ==
    /\ row_decodes(<<dt, bytes>>)
    /\ store_put(k, dt, bytes)
    /\ pending' = Append(pending, <<k, dt>>)

\* The Put events a write of <<k, dt>> may be notified by: the versioned
\* key, or the stream key with the start_dt as a field or without it.
EventsOf(k, dt) ==
    {[key |-> SchemaKey(k) \o <<DtText(dt)>>, start_dt |-> None],
     [key |-> SchemaKey(k), start_dt |-> Some(dt)],
     [key |-> SchemaKey(k), start_dt |-> None]}

\* The engine applies the event of the oldest write not yet notified; the
\* listing succeeds.
sync_event(ev) ==
    /\ pending # <<>>
    /\ ev \in EventsOf(Head(pending)[1], Head(pending)[2])
    /\ apply_put(ev, TRUE)
    /\ pending' = Tail(pending)

NextSync ==
    \/ \E k \in StoredKeys, dt \in StartDts, bytes \in Payloads : sync_write(k, dt, bytes)
    \/ \E ev \in PutEvents : sync_event(ev)

SpecSync == InitWatching /\ [][NextSync]_vars

\* ------------------------------------------------- bulk load of a catalog
\* The payloads of the catalogs cache() is run over.
LoadPayloads == {BadBytes, Bytes(<<>>), Bytes(<<S1, S2>>), Bytes(<<S2, S3>>)}
\* The versions one stream may have in the store.
Catalogs == UNION {[D -> LoadPayloads] : D \in SUBSET StartDts}

\* The process starts over any catalog of the two streams.
InitLoad ==
    /\ db \in [ItemKeys -> Catalogs]
    /\ writes = 0
    /\ engine = "init"
    /\ load_keys = {}
    /\ STREAM_SCHEMAS = EmptyMap
    /\ STREAM_SCHEMAS_LATEST = EmptyMap
    /\ STREAM_SETTINGS = EmptyMap
    /\ STREAM_SETTINGS_ATOMIC = EmptyMap
    /\ STREAM_RECORD_ID_GENERATOR = EmptyMap
    /\ last = [op |-> "init", key |-> <<>>, outcome |-> "ok",
               had_schema |-> FALSE, had_gen |-> FALSE]
    /\ pending = <<>>
    /\ call = NoCall
    /\ AsideIdle

\* cache() alone: nothing is written while it runs.
NextLoad ==
    \/ cache_list
    \/ \E k \in ItemKeys : cache_key(k)
    \/ cache_done

SpecLoad == InitLoad /\ [][NextLoad]_vars

\* ---------------------------------------------- temporal version selector
\* Largest end_dt recorded in a schema's metadata or asked for.
MaxEndDt == 2
\* Longest version list given to a function called on its own.
MaxVersions == 3

\* The text of an end_dt and str::parse::<i64> of it.
EndDtText(n) == ToString(n)
ParseEndDt(text) == CHOOSE n \in 0..MaxEndDt : EndDtText(n) = text

\* A schema as the selector reads it: its metadata has an "end_dt" entry or
\* has none.
VersionSchema(end_dt_meta) == [end_dt |-> end_dt_meta]
VersionSchemas == {VersionSchema(None)} \cup {VersionSchema(Some(EndDtText(n))) : n \in 0..MaxEndDt}

\* Mutant: a schema without "end_dt" never ends.
schema_end_dt_absent_is_infinite(schema) ==
    IF schema.end_dt = None THEN MaxEndDt + 1 ELSE ParseEndDt(schema.end_dt[1])

\* metadata.get("end_dt").unwrap_or(&"0".to_string()).parse().unwrap()
schema_end_dt(schema) ==
    ParseEndDt(unwrap_or_default(schema.end_dt, "0"))

\* Mutant: a version whose end_dt equals the query's is selected.
RECURSIVE filter_scan_inclusive(_, _, _)
filter_scan_inclusive(schemas, i, end_dt) ==
    IF i >= Len(schemas)
    THEN (IF Len(schemas) > 0 THEN Some(Len(schemas) - 1) ELSE None)
    ELSE IF end_dt <= schema_end_dt(schemas[i + 1])
         THEN Some(i)
         ELSE filter_scan_inclusive(schemas, i + 1, end_dt)

\* The for loop of filter_schema_version_id from the 0-based index i on, and
\* the fallback after it.
RECURSIVE filter_scan(_, _, _)
filter_scan(schemas, i, end_dt) ==
    IF i >= Len(schemas)
    THEN (IF Len(schemas) > 0 THEN Some(Len(schemas) - 1) ELSE None)
    ELSE IF end_dt < schema_end_dt(schemas[i + 1])
         THEN Some(i)
         ELSE filter_scan(schemas, i + 1, end_dt)

\* filter_schema_version_id(schemas, _start_dt, end_dt) -> Option<usize>
filter_schema_version_id(schemas, start_dt, end_dt) == filter_scan(schemas, 0, end_dt)

\* ------------------------------------------- functions called on their own
SeqsUpTo(S, n) == UNION {[1..m -> S] : m \in 0..n}
VersionLists == SeqsUpTo(VersionSchemas, MaxVersions)
\* Cached histories: at least one entry, any order of start_dt.
Histories == {h \in SeqsUpTo(StartDts \X {S1, S2}, MaxVersions - 1) : h # <<>>}

FilterCalls ==
    {[fn |-> "filter_schema_version_id", schemas |-> v, end_dt |-> q, done |-> FALSE]
        : v \in VersionLists, q \in (-1)..MaxEndDt}
TsRangeCalls ==
    {[fn |-> "ts_range", ev_start_dt |-> e, prev |-> p, done |-> FALSE]
        : e \in (-1)..MaxDt, p \in 0..MaxDt}
PrevStartDtCalls ==
    {[fn |-> "prev_start_dt", schemas_map |-> m, item_key |-> K1, done |-> FALSE]
        : m \in {EmptyMap} \cup {MapInsert(EmptyMap, K1, h) : h \in Histories}}
MergeCalls ==
    {[fn |-> "merge_versions", schemas_map |-> m, item_key |-> K1, schema_versions |-> v,
      done |-> FALSE]
        : m \in {EmptyMap} \cup {MapInsert(EmptyMap, K1, h) : h \in Histories},
          v \in Histories}

\* One function is to be called with arguments of the sets above.
\* The mutating operations: which one, the build and the configuration, and
\* what the store and the replication queue answer.
MutatingOps == {"merge", "update_setting", "delete_fields", "delete"}
MutateCalls ==
    {[fn |-> "mutate", op |-> o, enrichment |-> t, enterprise |-> b, enabled |-> e,
      store_ok |-> st, aux_ok |-> x, queue_ok |-> q, done |-> FALSE]
        : o \in MutatingOps, t \in BOOLEAN, b \in BOOLEAN, e \in BOOLEAN,
          st \in BOOLEAN, x \in BOOLEAN, q \in [1..2 -> BOOLEAN]}

\* One call made by a mutating operation and its answer.
Step(what, ok) == [what |-> what, ok |-> ok]
\* The queue messages of an operation, in the order they are enqueued.
queue_messages(op) ==
    CASE op = "merge" -> <<"queue::schema_merge">>
      [] op = "update_setting" -> <<"queue::schema_setting">>
      [] op = "delete_fields" -> <<"queue::schema_delete_fields">>
      [] op = "delete" -> <<"queue::delete", "queue::stream_delete">>

\* The enqueue calls with `?`: each one made until the first that fails.
RECURSIVE enqueue_all(_, _, _)
enqueue_all(msgs, queue_ok, i) ==
    IF i > Len(msgs) THEN <<>>
    ELSE IF ~queue_ok[i] THEN <<Step(msgs[i], FALSE)>>
    ELSE <<Step(msgs[i], TRUE)>> \o enqueue_all(msgs, queue_ok, i + 1)

\* Mutant: the message is enqueued whatever the store answered.
mutating_call_enqueues_anyway(c) ==
    LET store == <<Step("infra::schema", c.store_ok)>>
        queued == IF c.enterprise /\ c.enabled
                  THEN enqueue_all(queue_messages(c.op), c.queue_ok, 1) ELSE <<>>
        trace == store \o queued
    IN [ret |-> IF ~c.store_ok THEN "Err(store)"
                ELSE IF \E i \in DOMAIN queued : ~queued[i].ok THEN "Err(queue)" ELSE "Ok",
        trace |-> trace]

\* merge, update_setting, delete_fields and delete: the store write with `?`,
\* for delete of an enrichment table two deletions whose failure is logged,
\* then, in an enterprise build with super_cluster.enabled, the enqueues.
mutating_call(c) ==
    LET store == <<Step("infra::schema", c.store_ok)>>
        aux == IF c.op = "delete" /\ c.enrichment
               THEN <<Step("delete_table_size", c.aux_ok), Step("delete_meta_table_stats", c.aux_ok)>>
               ELSE <<>>
        queued == IF c.enterprise /\ c.enabled
                  THEN enqueue_all(queue_messages(c.op), c.queue_ok, 1) ELSE <<>>
    IN IF ~c.store_ok THEN [ret |-> "Err(store)", trace |-> store]
       ELSE [ret |-> IF \E i \in DOMAIN queued : ~queued[i].ok THEN "Err(queue)" ELSE "Ok",
             trace |-> store \o aux \o queued]

\* A cache holding the given keys, as Put events of S2 leave it.
CacheWith(keys) ==
    [schemas |-> [k \in keys |-> <<<<1, S2>>>>],
     latest |-> [k \in keys |-> S2],
     settings |-> [k \in keys |-> unwrap_or_default(unwrap_stream_settings(S2), DefaultSettings)],
     atomic |-> [k \in keys |-> unwrap_or_default(unwrap_stream_settings(S2), DefaultSettings)],
     gen |-> [k \in keys |-> NewGenerator]]
DeleteCalls ==
    {[fn |-> "delete_arm", c |-> CacheWith(keys), ev |-> [key |-> SchemaKey(k) \o seg],
      dir_on_local_disk |-> d, fails |-> f, done |-> FALSE]
        : keys \in SUBSET ItemKeys, k \in ItemKeys, seg \in {<<>>, <<DtText(1)>>},
          d \in BOOLEAN, f \in SUBSET FallibleCleanup}

\* Put events with keys of four to seven segments, with and without the
\* start_dt field.
PutKeyCalls ==
    {[fn |-> "put_key", ev |-> [key |-> key, start_dt |-> f], done |-> FALSE]
        : key \in {SubSeq(SchemaKey(K1), 1, 4), SchemaKey(K1)}
                  \cup {SchemaKey(K1) \o <<seg>> : seg \in DtSegments}
                  \cup {SchemaKey(K1) \o <<seg, "y">> : seg \in DtSegments},
          f \in {None} \cup {Some(n) : n \in 0..MaxDt}}

\* Mutant: the organization is created on every applied Put event.
org_creation_due_always(cfg, orgs, org_id) == TRUE

\* (create_org_through_ingestion || usage_enabled || audit_enabled)
\*     && !ORGANIZATIONS.read().await.contains_key(org_id)
org_creation_due(cfg, orgs, org_id) ==
    /\ (cfg.create_org_through_ingestion \/ cfg.usage_enabled \/ cfg.audit_enabled)
    /\ org_id \notin orgs

\* The Put arm to its end: the cache writes, then the organization check;
\* an Err of check_and_create_org is logged and the arm is over.
put_arm(c, d, ev, list_ok, cfg, orgs, create_ok) ==
    LET r == put_event(c, d, ev, list_ok)
        org_id == strip_prefix(put_ev_key(ev))[1]
        due == r.outcome = "applied" /\ org_creation_due(cfg, orgs, org_id)
    IN [outcome |-> r.outcome, c |-> r.c,
        org_calls |-> IF due THEN <<org_id>> ELSE <<>>,
        logged |-> due /\ ~create_ok,
        engine |-> IF r.outcome = "panic" THEN "panicked" ELSE "watch"]

OrgConfigs == [create_org_through_ingestion : BOOLEAN, usage_enabled : BOOLEAN,
               audit_enabled : BOOLEAN]
\* The stores a Put event of K1 is applied over: no version, one version,
\* an undecodable version under the latest.
PutArmStores ==
    {[k \in ItemKeys |-> IF k = K1 THEN m ELSE EmptyMap]
        : m \in {EmptyMap, MapInsert(EmptyMap, 1, Bytes(<<S1, S2>>)),
                 MapInsert(MapInsert(EmptyMap, 1, BadBytes), 2, Bytes(<<S1, S2>>))}}
PutArmCalls ==
    {[fn |-> "put_arm", c |-> CacheWith(keys), d |-> d,
      ev |-> [key |-> SchemaKey(K1), start_dt |-> None], list_ok |-> l,
      cfg |-> cfg, orgs |-> orgs, create_ok |-> ok, done |-> FALSE]
        : keys \in {{}, {K1}}, d \in PutArmStores, l \in BOOLEAN, cfg \in OrgConfigs,
          orgs \in SUBSET {"o1", "o2"}, ok \in BOOLEAN}

\* ------------------------------------------------------------------ list
\* Schema::empty()
EmptySchema == [fields |-> "", settings |-> NoSettingsMeta]
K5 == <<"o2", "logs", "s1">>

\* "{org_id}/" or "{org_id}/{stream_type}/", as the segments before the
\* last slash.
list_prefix(org_id, stream_type) ==
    IF stream_type = None THEN <<org_id>> ELSE <<org_id, stream_type[1]>>
\* key.strip_prefix(&prefix): the rest of the key when it starts with the
\* prefix, slash included.
key_strip_prefix(key, prefix) ==
    IF Len(key) > Len(prefix) /\ SubSeq(key, 1, Len(prefix)) = prefix
    THEN Some(SubSeq(key, Len(prefix) + 1, Len(key)))
    ELSE None

\* Mutant: the cached schema is returned whatever fetch_schema says.
list_stream_schemas_with_schema(latest, org_id, stream_type, fetch_schema) ==
    LET prefix == list_prefix(org_id, stream_type)
        hits == {k \in DOMAIN latest : key_strip_prefix(k, prefix) # None}
    IN {[stream_type |-> k[2], stream_name |-> k[3], schema |-> latest[k]] : k \in hits}

\* list_stream_schemas: the entries of the cached keys under the prefix.
list_stream_schemas(latest, org_id, stream_type, fetch_schema) ==
    IF latest = EmptyMap THEN {}
    ELSE LET prefix == list_prefix(org_id, stream_type)
             hits == {k \in DOMAIN latest : key_strip_prefix(k, prefix) # None}
             rest(k) == key_strip_prefix(k, prefix)[1]
         IN {[stream_type |-> IF stream_type = None THEN rest(k)[1] ELSE stream_type[1],
              stream_name |-> IF stream_type = None THEN rest(k)[2] ELSE rest(k)[1],
              schema |-> IF fetch_schema THEN latest[k] ELSE EmptySchema] : k \in hits}

\* The store path of list: the stored streams under the prefix, each with
\* the last snapshot of its greatest start_dt, or an empty schema.
list_from_store(d, org_id, stream_type, fetch_schema) ==
    LET prefix == list_prefix(org_id, stream_type)
        hits == {k \in DOMAIN d : key_strip_prefix(k, prefix) # None /\ DOMAIN d[k] # {}}
        top(k) == d[k][CHOOSE dt \in DOMAIN d[k] : \A o \in DOMAIN d[k] : o <= dt]
    IN IF fetch_schema /\ \E k \in hits : ~from_slice(top(k)).ok
       THEN [ret |-> "panic", entries |-> {}]
       ELSE [ret |-> "Ok",
             entries |-> {[stream_type |-> k[2], stream_name |-> k[3],
                           schema |-> IF fetch_schema /\ from_slice(top(k)).val # <<>>
                                      THEN LET l == from_slice(top(k)).val IN l[Len(l)]
                                      ELSE EmptySchema] : k \in hits}]

\* list: the cache when it holds any key, the store otherwise.
list(latest, d, list_ok, org_id, stream_type, fetch_schema) ==
    IF latest # EmptyMap
    THEN [ret |-> "Ok", store_read |-> FALSE,
          entries |-> list_stream_schemas(latest, org_id, stream_type, fetch_schema)]
    ELSE IF ~list_ok THEN [ret |-> "Err", store_read |-> TRUE, entries |-> {}]
    ELSE LET r == list_from_store(d, org_id, stream_type, fetch_schema)
         IN [ret |-> r.ret, store_read |-> TRUE, entries |-> r.entries]

ListStores ==
    {[k \in ItemKeys |-> IF k = K1 THEN m ELSE EmptyMap]
        : m \in {EmptyMap, MapInsert(EmptyMap, 1, Bytes(<<S1, S2>>)),
                 MapInsert(MapInsert(EmptyMap, 1, Bytes(<<S1>>)), 2, BadBytes)}}
ListCalls ==
    {[fn |-> "list", latest |-> [k \in keys |-> IF k = K1 THEN S2 ELSE S3], d |-> d,
      list_ok |-> l, org_id |-> o, stream_type |-> t, fetch_schema |-> f, done |-> FALSE]
        : keys \in SUBSET {K1, K2, K5}, d \in ListStores, l \in BOOLEAN,
          o \in {"o1", "o2", "o3"},
          t \in {None, Some("logs"), Some("enrichment_tables")}, f \in BOOLEAN}

\* ------------------------------------------------- stream settings calls
\* The three flags of StreamSettings that update_stream_settings checks.
FlagSettings == [store_original_data : BOOLEAN, index_original_data : BOOLEAN,
                 index_all_values : BOOLEAN]
\* The Option fields of UpdateStreamSettings for them.
FlagUpdates == [store_original_data : {None, Some(TRUE), Some(FALSE)},
                index_original_data : {None, Some(TRUE), Some(FALSE)},
                index_all_values : {None, Some(TRUE), Some(FALSE)}]

\* if let Some(x) = new { settings.x = x }
overwrite(old, new) == IF new = None THEN old ELSE new[1]

\* Mutant: store_original_data is left as requested.
update_stream_settings_keeps_store(found, settings, new_settings, later_ok) ==
    LET index == overwrite(settings.index_original_data, new_settings.index_original_data)
        merged == [store_original_data |->
                       overwrite(settings.store_original_data, new_settings.store_original_data),
                   index_original_data |-> index,
                   index_all_values |->
                       overwrite(settings.index_all_values, new_settings.index_all_values)]
    IN IF ~found THEN [ret |-> "BadRequest(not found)", saved |-> None]
       ELSE IF merged.index_original_data /\ merged.index_all_values
       THEN [ret |-> "BadRequest(flags)", saved |-> None]
       ELSE IF ~later_ok THEN [ret |-> "rejected", saved |-> None]
       ELSE [ret |-> "save_stream_settings", saved |-> Some(merged)]

\* update_stream_settings as to the three flags: the settings it hands to
\* save_stream_settings, none when it returns before.
update_stream_settings(found, settings, new_settings, later_ok) ==
    LET index == overwrite(settings.index_original_data, new_settings.index_original_data)
        store == overwrite(settings.store_original_data, new_settings.store_original_data)
        merged == [store_original_data |-> IF index THEN TRUE ELSE store,
                   index_original_data |-> index,
                   index_all_values |->
                       overwrite(settings.index_all_values, new_settings.index_all_values)]
    IN IF ~found THEN [ret |-> "BadRequest(not found)", saved |-> None]
       ELSE IF merged.index_original_data /\ merged.index_all_values
       THEN [ret |-> "BadRequest(flags)", saved |-> None]
       ELSE IF ~later_ok THEN [ret |-> "rejected", saved |-> None]
       ELSE [ret |-> "save_stream_settings", saved |-> Some(merged)]

UpdateSettingsCalls ==
    {[fn |-> "update_stream_settings", found |-> f, settings |-> s, new_settings |-> n,
      later_ok |-> l, done |-> FALSE]
        : f \in BOOLEAN, s \in FlagSettings, n \in FlagUpdates, l \in BOOLEAN}

\* Partition keys: field, types, disabled.
PartitionKeys == [field : {"f", "g"}, types : {"hash", "value"}, disabled : BOOLEAN]
\* Stored partition keys: no field twice.
OldPartitionKeys ==
    {<<>>} \cup {<<k>> : k \in PartitionKeys}
           \cup {<<k, l>> : k \in {x \in PartitionKeys : x.field = "f"},
                             l \in {x \in PartitionKeys : x.field = "g"}}
NewPartitionKeys ==
    {<<>>} \cup {<<k>> : k \in PartitionKeys}
           \cup {<<k, l>> : k \in PartitionKeys, l \in PartitionKeys}

\* old_partition_keys.iter_mut().find(|k| k.field == v.field): its index, 0
\* when there is none.
find_field(keys, field) ==
    IF \E i \in DOMAIN keys : keys[i].field = field
    THEN CHOOSE i \in DOMAIN keys :
             keys[i].field = field /\ \A j \in DOMAIN keys : keys[j].field = field => i <= j
    ELSE 0

\* Mutant: the requested keys replace the stored ones.
RECURSIVE update_partition_keys_replaces(_, _)
update_partition_keys_replaces(old_partition_keys, requested) ==
    [ok |-> TRUE, keys |-> requested]

\* The loop over settings.partition_keys: a known field takes the
\* requested disabled flag, with other types the request is refused; an
\* unknown field is pushed.
RECURSIVE update_partition_keys(_, _)
update_partition_keys(old_partition_keys, requested) ==
    IF requested = <<>> THEN [ok |-> TRUE, keys |-> old_partition_keys]
    ELSE LET v == Head(requested)
             i == find_field(old_partition_keys, v.field)
         IN IF i = 0
            THEN update_partition_keys(Append(old_partition_keys, v), Tail(requested))
            ELSE IF old_partition_keys[i].types # v.types
            THEN [ok |-> FALSE, keys |-> <<>>]
            ELSE update_partition_keys(
                     [old_partition_keys EXCEPT ![i].disabled = v.disabled], Tail(requested))

\* save_stream_settings as to the partition keys: the stored keys are all
\* disabled first, the requested ones applied, and the result written
\* unless a check refuses the request.
save_stream_settings(old_partition_keys, requested, checks_ok, retention_ok) ==
    LET disabled == [i \in DOMAIN old_partition_keys |->
                        [old_partition_keys[i] EXCEPT !.disabled = TRUE]]
        r == update_partition_keys(disabled, requested)
    IN IF ~checks_ok THEN [ret |-> "BadRequest", written |-> None]
       ELSE IF ~r.ok THEN [ret |-> "BadRequest(partition types)", written |-> None]
       ELSE IF ~retention_ok THEN [ret |-> "BadRequest(retention days)", written |-> None]
       ELSE [ret |-> "Ok", written |-> Some(r.keys)]

SaveSettingsCalls ==
    {[fn |-> "save_stream_settings", old |-> o, requested |-> n, checks_ok |-> c,
      retention_ok |-> r, done |-> FALSE]
        : o \in OldPartitionKeys, n \in NewPartitionKeys, c \in BOOLEAN, r \in BOOLEAN}

StreamDeleteCalls ==
    {[fn |-> "stream_delete_inner", c |-> CacheWith(keys), key |-> k, assoc_ok |-> a,
      retention_ok |-> r, offset_ok |-> o, done |-> FALSE]
        : keys \in SUBSET ItemKeys, k \in ItemKeys, a \in BOOLEAN, r \in BOOLEAN,
          o \in BOOLEAN}

InitCalls ==
    /\ db = [k \in ItemKeys |-> EmptyMap]
    /\ writes = 0
    /\ engine = "init"
    /\ load_keys = {}
    /\ STREAM_SCHEMAS = EmptyMap
    /\ STREAM_SCHEMAS_LATEST = EmptyMap
    /\ STREAM_SETTINGS = EmptyMap
    /\ STREAM_SETTINGS_ATOMIC = EmptyMap
    /\ STREAM_RECORD_ID_GENERATOR = EmptyMap
    /\ last = [op |-> "init", key |-> <<>>, outcome |-> "ok",
               had_schema |-> FALSE, had_gen |-> FALSE]
    /\ pending = <<>>
    /\ call \in FilterCalls \cup TsRangeCalls \cup PrevStartDtCalls \cup MergeCalls
               \cup MutateCalls \cup DeleteCalls \cup PutKeyCalls \cup PutArmCalls
               \cup StreamDeleteCalls \cup ListCalls \cup UpdateSettingsCalls
               \cup SaveSettingsCalls
    /\ AsideIdle

\* The call returns ret.
Returns(ret) ==
    /\ ~call.done
    /\ call' = [fn |-> call.fn, args |-> call, done |-> TRUE, ret |-> ret]
    /\ UNCHANGED <<db, writes, engine, load_keys, caches, last, pending, aside>>

call_filter_schema_version_id ==
    /\ call.fn = "filter_schema_version_id"
    /\ Returns(filter_schema_version_id(call.schemas, 0, call.end_dt))

call_ts_range ==
    /\ call.fn = "ts_range"
    /\ Returns(ts_range(call.ev_start_dt, call.prev))

call_prev_start_dt ==
    /\ call.fn = "prev_start_dt"
    /\ Returns(prev_start_dt(call.schemas_map, call.item_key))

call_merge_versions ==
    /\ call.fn = "merge_versions"
    /\ Returns(merge_versions(call.schemas_map, call.item_key, call.schema_versions))

call_mutate ==
    /\ call.fn = "mutate"
    /\ Returns(mutating_call(call))

call_delete_arm ==
    /\ call.fn = "delete_arm"
    /\ Returns(delete_arm(call.c, call.ev, call.dir_on_local_disk, call.fails))

call_put_key ==
    /\ call.fn = "put_key"
    /\ Returns([ev_key |-> put_ev_key(call.ev), ev_start_dt |-> put_ev_start_dt(call.ev)])

call_put_arm ==
    /\ call.fn = "put_arm"
    /\ Returns(put_arm(call.c, call.d, call.ev, call.list_ok, call.cfg, call.orgs,
                       call.create_ok))

call_stream_delete_inner ==
    /\ call.fn = "stream_delete_inner"
    /\ Returns(stream_delete_inner_call(call.c, call.key, call.assoc_ok, call.retention_ok,
                                        call.offset_ok))

call_list ==
    /\ call.fn = "list"
    /\ Returns(list(call.latest, call.d, call.list_ok, call.org_id, call.stream_type,
                    call.fetch_schema))

call_update_stream_settings ==
    /\ call.fn = "update_stream_settings"
    /\ Returns(update_stream_settings(call.found, call.settings, call.new_settings,
                                      call.later_ok))

call_save_stream_settings ==
    /\ call.fn = "save_stream_settings"
    /\ Returns(save_stream_settings(call.old, call.requested, call.checks_ok,
                                    call.retention_ok))

NextCalls ==
    \/ call_filter_schema_version_id
    \/ call_ts_range
    \/ call_prev_start_dt
    \/ call_merge_versions
    \/ call_mutate
    \/ call_delete_arm
    \/ call_put_key
    \/ call_put_arm
    \/ call_stream_delete_inner
    \/ call_list
    \/ call_update_stream_settings
    \/ call_save_stream_settings

SpecCalls == InitCalls /\ [][NextCalls]_vars

\* ------------------------------------------------ the engine step by step
\* watch() with each exclusive section of a handler as a step of its own.
\* The payloads of the catalogs the step-wise engine runs over.
StepPayloads == {BadBytes, Bytes(<<S1, S2>>)}
StepCatalogs == UNION {[D -> StepPayloads] : D \in SUBSET StartDts}

\* The events of the feed, for both streams.
FeedPuts ==
    {[key |-> SchemaKey(k), start_dt |-> None] : k \in ItemKeys}
    \cup {[key |-> SchemaKey(k) \o <<DtText(n)>>, start_dt |-> None] : k \in ItemKeys, n \in StartDts}
FeedDeletes ==
    {[key |-> SchemaKey(k)] : k \in ItemKeys}
    \cup {[key |-> SchemaKey(k) \o <<DtText(1)>>] : k \in ItemKeys}

InitSteps ==
    /\ db \in [ItemKeys -> StepCatalogs]
    /\ writes = 0
    /\ engine = "watch"
    /\ load_keys = {}
    /\ STREAM_SCHEMAS = EmptyMap
    /\ STREAM_SCHEMAS_LATEST = EmptyMap
    /\ STREAM_SETTINGS = EmptyMap
    /\ STREAM_SETTINGS_ATOMIC = EmptyMap
    /\ STREAM_RECORD_ID_GENERATOR = EmptyMap
    /\ last = [op |-> "init", key |-> <<>>, outcome |-> "ok",
               had_schema |-> FALSE, had_gen |-> FALSE]
    /\ pending = <<>>
    /\ call = NoCall
    /\ AsideIdle

\* Mutant: the next event is read while one is being applied.
may_recv_always(handlers) == TRUE

\* events.recv() is awaited at the top of the loop only: every handler runs
\* to its end, or to its `continue`, inside the loop body.
may_recv(handlers) == handlers = <<>>

\* The handler at position i has done its step: it moves to pc, or is over.
Moves(i, pc) == inflight' = [inflight EXCEPT ![i].pc = pc]
Over(i) == inflight' = [j \in 1..(Len(inflight) - 1) |-> IF j < i THEN inflight[j] ELSE inflight[j + 1]]
At(i, kind, pc) == /\ engine = "watch" /\ inflight[i].kind = kind /\ inflight[i].pc = pc
StepFrame == UNCHANGED <<db, writes, load_keys, last, pending, call, ENRICHMENT_TABLES, enrich,
                         queriers, others>>

\* A Put event is read: key decoded, previous start_dt read, versions
\* listed, latest payload parsed; a `continue` ends the event here.
recv_put(ev, list_ok) ==
    /\ engine = "watch"
    /\ may_recv(inflight)
    /\ LET ev_key == put_ev_key(ev)
           item_key == strip_prefix(ev_key)
           prev == prev_start_dt(STREAM_SCHEMAS, item_key)
           schema_versions == list_values_by_start_dt(db, ev_key, ts_range(put_ev_start_dt(ev), prev))
           n == Len(schema_versions)
           latest_list == from_slice(schema_versions[n][2])
       IN IF ~list_ok \/ n = 0 \/ ~latest_list.ok \/ latest_list.val = <<>>
          THEN UNCHANGED inflight
          ELSE inflight' = Append(inflight,
                   [kind |-> "Put", item_key |-> item_key, pc |-> "settings",
                    latest_start_dt |-> schema_versions[n][1],
                    latest_schema |-> latest_list.val[Len(latest_list.val)],
                    rows |-> SubSeq(schema_versions, 1, n - 1)])
    /\ UNCHANGED <<engine, caches>>
    /\ StepFrame

\* Mutant: the Settings written are those of the snapshot LatestSchema
\* still holds.
put_settings_of_old_latest(i) ==
    /\ At(i, "Put", "settings")
    /\ LET h == inflight[i]
           schema == IF h.item_key \in DOMAIN STREAM_SCHEMAS_LATEST
                     THEN STREAM_SCHEMAS_LATEST[h.item_key] ELSE h.latest_schema
           settings == unwrap_or_default(unwrap_stream_settings(schema), DefaultSettings)
           w == MapInsert(STREAM_SETTINGS, h.item_key, settings)
       IN /\ STREAM_SETTINGS' = w
          /\ STREAM_SETTINGS_ATOMIC' = w
    /\ Moves(i, "latest")
    /\ UNCHANGED <<engine, STREAM_SCHEMAS, STREAM_SCHEMAS_LATEST, STREAM_RECORD_ID_GENERATOR>>
    /\ StepFrame

\* The generator is registered if vacant, Settings and its mirror written.
put_settings(i) ==
    /\ At(i, "Put", "settings")
    /\ LET h == inflight[i]
           settings == unwrap_or_default(unwrap_stream_settings(h.latest_schema), DefaultSettings)
           w == MapInsert(STREAM_SETTINGS, h.item_key, settings)
       IN /\ STREAM_RECORD_ID_GENERATOR' =
                 ensure_generator(STREAM_RECORD_ID_GENERATOR, h.item_key, settings)
          /\ STREAM_SETTINGS' = w
          /\ STREAM_SETTINGS_ATOMIC' = set_stream_settings_atomic(w)
    /\ Moves(i, "latest")
    /\ UNCHANGED <<engine, STREAM_SCHEMAS, STREAM_SCHEMAS_LATEST>>
    /\ StepFrame

\* LatestSchema is written.
put_latest(i) ==
    /\ At(i, "Put", "latest")
    /\ STREAM_SCHEMAS_LATEST' =
           MapInsert(STREAM_SCHEMAS_LATEST, inflight[i].item_key, inflight[i].latest_schema)
    /\ Moves(i, "history")
    /\ UNCHANGED <<engine, STREAM_SCHEMAS, STREAM_SETTINGS, STREAM_SETTINGS_ATOMIC,
                   STREAM_RECORD_ID_GENERATOR>>
    /\ StepFrame

\* The other versions are decoded and the history is merged; the task
\* panics when one of them does not decode.
put_history(i) ==
    /\ At(i, "Put", "history")
    /\ LET h == inflight[i]
           decoded == [j \in 1..Len(h.rows) |-> decode_row(h.rows[j])]
                          \o <<<<h.latest_start_dt, h.latest_schema>>>>
       IN IF \E j \in 1..Len(h.rows) : ~row_decodes(h.rows[j])
          THEN engine' = "panicked" /\ UNCHANGED STREAM_SCHEMAS
          ELSE /\ engine' = engine
               /\ STREAM_SCHEMAS' = merge_versions(STREAM_SCHEMAS, h.item_key, decoded)
    /\ Over(i)
    /\ UNCHANGED <<STREAM_SCHEMAS_LATEST, STREAM_SETTINGS, STREAM_SETTINGS_ATOMIC,
                   STREAM_RECORD_ID_GENERATOR>>
    /\ StepFrame

\* A Delete event is read; one with a start_dt > 0 ends here.
recv_delete(ev) ==
    /\ engine = "watch"
    /\ may_recv(inflight)
    /\ LET item_key == strip_prefix(ev.key)
       IN IF delete_start_dt(item_key) > 0
          THEN UNCHANGED inflight
          ELSE inflight' = Append(inflight, [kind |-> "Delete", item_key |-> item_key,
                                             pc |-> "schemas"])
    /\ UNCHANGED <<engine, caches>>
    /\ StepFrame

del_schemas(i) ==
    /\ At(i, "Delete", "schemas")
    /\ STREAM_SCHEMAS' = MapRemove(STREAM_SCHEMAS, inflight[i].item_key)
    /\ Moves(i, "latest")
    /\ UNCHANGED <<engine, STREAM_SCHEMAS_LATEST, STREAM_SETTINGS, STREAM_SETTINGS_ATOMIC,
                   STREAM_RECORD_ID_GENERATOR>>
    /\ StepFrame

del_latest(i) ==
    /\ At(i, "Delete", "latest")
    /\ STREAM_SCHEMAS_LATEST' = MapRemove(STREAM_SCHEMAS_LATEST, inflight[i].item_key)
    /\ Moves(i, "generator")
    /\ UNCHANGED <<engine, STREAM_SCHEMAS, STREAM_SETTINGS, STREAM_SETTINGS_ATOMIC,
                   STREAM_RECORD_ID_GENERATOR>>
    /\ StepFrame

del_generator(i) ==
    /\ At(i, "Delete", "generator")
    /\ STREAM_RECORD_ID_GENERATOR' = MapRemove(STREAM_RECORD_ID_GENERATOR, inflight[i].item_key)
    /\ Moves(i, "settings")
    /\ UNCHANGED <<engine, STREAM_SCHEMAS, STREAM_SCHEMAS_LATEST, STREAM_SETTINGS,
                   STREAM_SETTINGS_ATOMIC>>
    /\ StepFrame

\* Settings and its mirror are written; the cleanup calls follow and the
\* handler is over.
del_settings(i) ==
    /\ At(i, "Delete", "settings")
    /\ LET w == MapRemove(STREAM_SETTINGS, inflight[i].item_key)
       IN STREAM_SETTINGS' = w /\ STREAM_SETTINGS_ATOMIC' = set_stream_settings_atomic(w)
    /\ Over(i)
    /\ UNCHANGED <<engine, STREAM_SCHEMAS, STREAM_SCHEMAS_LATEST, STREAM_RECORD_ID_GENERATOR>>
    /\ StepFrame

Handlers == DOMAIN inflight

NextSteps ==
    \/ \E ev \in FeedPuts, list_ok \in BOOLEAN : recv_put(ev, list_ok)
    \/ \E i \in Handlers : put_settings(i)
    \/ \E i \in Handlers : put_latest(i)
    \/ \E i \in Handlers : put_history(i)
    \/ \E ev \in FeedDeletes : recv_delete(ev)
    \/ \E i \in Handlers : del_schemas(i)
    \/ \E i \in Handlers : del_latest(i)
    \/ \E i \in Handlers : del_generator(i)
    \/ \E i \in Handlers : del_settings(i)

SpecSteps == InitSteps /\ [][NextSteps]_vars

\* ------------------------- stream_delete_inner beside the running engine
\* stream_delete_inner with each exclusive section as a step of its own,
\* run by a request task while the engine applies Put events and the store
\* is written.
RacePayloads == {Bytes(<<S1, S2>>), Bytes(<<S2, S3>>)}
RacePuts == {[key |-> SchemaKey(k), start_dt |-> None] : k \in StoredKeys}

DeleteFrame == UNCHANGED <<db, writes, engine, load_keys, last, pending, call, inflight,
                           ENRICHMENT_TABLES, enrich, queriers, file_cache, local_delete>>

\* The call starts: the enterprise association removal, with `?`, and the
\* retention job; either failing, the error is returned.
sdi_start(k, assoc_ok, retention_ok) ==
    /\ deleting.pc \in {"idle", "Ok", "Err"}
    /\ deleting' = IF assoc_ok /\ retention_ok
                   THEN [pc |-> "schemas", key |-> k]
                   ELSE [pc |-> "Err", key |-> k,
                         failed |-> IF assoc_ok THEN "retention" ELSE "associations",
                         removed |-> FALSE]
    /\ UNCHANGED caches
    /\ DeleteFrame

sdi_schemas ==
    /\ deleting.pc = "schemas"
    /\ STREAM_SCHEMAS' = MapRemove(STREAM_SCHEMAS, deleting.key)
    /\ deleting' = [deleting EXCEPT !.pc = "latest"]
    /\ UNCHANGED <<STREAM_SCHEMAS_LATEST, STREAM_SETTINGS, STREAM_SETTINGS_ATOMIC,
                   STREAM_RECORD_ID_GENERATOR>>
    /\ DeleteFrame

sdi_latest ==
    /\ deleting.pc = "latest"
    /\ STREAM_SCHEMAS_LATEST' = MapRemove(STREAM_SCHEMAS_LATEST, deleting.key)
    /\ deleting' = [deleting EXCEPT !.pc = "settings"]
    /\ UNCHANGED <<STREAM_SCHEMAS, STREAM_SETTINGS, STREAM_SETTINGS_ATOMIC,
                   STREAM_RECORD_ID_GENERATOR>>
    /\ DeleteFrame

sdi_settings ==
    /\ deleting.pc = "settings"
    /\ LET w == MapRemove(STREAM_SETTINGS, deleting.key)
       IN STREAM_SETTINGS' = w /\ STREAM_SETTINGS_ATOMIC' = set_stream_settings_atomic(w)
    /\ deleting' = [deleting EXCEPT !.pc = "generator"]
    /\ UNCHANGED <<STREAM_SCHEMAS, STREAM_SCHEMAS_LATEST, STREAM_RECORD_ID_GENERATOR>>
    /\ DeleteFrame

sdi_generator ==
    /\ deleting.pc = "generator"
    /\ STREAM_RECORD_ID_GENERATOR' = MapRemove(STREAM_RECORD_ID_GENERATOR, deleting.key)
    /\ deleting' = [deleting EXCEPT !.pc = "del_offset"]
    /\ UNCHANGED <<STREAM_SCHEMAS, STREAM_SCHEMAS_LATEST, STREAM_SETTINGS,
                   STREAM_SETTINGS_ATOMIC>>
    /\ DeleteFrame

\* The compaction offset is deleted; its error is returned.
sdi_del_offset(offset_ok) ==
    /\ deleting.pc = "del_offset"
    /\ deleting' = IF offset_ok
                   THEN [pc |-> "Ok", key |-> deleting.key]
                   ELSE [pc |-> "Err", key |-> deleting.key, failed |-> "del_offset",
                         removed |-> TRUE]
    /\ UNCHANGED caches
    /\ DeleteFrame

NextRace ==
    \/ \E k \in StoredKeys, dt \in StartDts, bytes \in RacePayloads : schema_put(k, dt, bytes)
    \/ \E ev \in RacePuts, list_ok \in BOOLEAN : recv_put(ev, list_ok)
    \/ \E i \in Handlers : put_settings(i)
    \/ \E i \in Handlers : put_latest(i)
    \/ \E i \in Handlers : put_history(i)
    \/ \E k \in StoredKeys, a \in BOOLEAN, r \in BOOLEAN : sdi_start(k, a, r)
    \/ sdi_schemas
    \/ sdi_latest
    \/ sdi_settings
    \/ sdi_generator
    \/ \E offset_ok \in BOOLEAN : sdi_del_offset(offset_ok)

SpecRace == InitWatching /\ [][NextRace]_vars

\* ------------------------------------------------ cache_enrichment_tables
MaxQueriers == 2
K3 == <<"o1", "enrichment_tables", "t2">>
\* A key of a stream whose name is that of the enrichment type.
K4 == <<"o1", "logs", "enrichment_tables">>
LatestKeys == {K1, K2, K3, K4}

\* schema_key.contains("/enrichment_tables/") and columns[1] is the
\* enrichment type.
is_enrichment_key(k) ==
    /\ \E i \in 2..(Len(k) - 1) : k[i] = "enrichment_tables"
    /\ k[2] = "enrichment_tables"

InitEnrich ==
    /\ db = [k \in ItemKeys |-> EmptyMap]
    /\ writes = 0
    /\ engine = "init"
    /\ load_keys = {}
    /\ STREAM_SCHEMAS = EmptyMap
    /\ \E keys \in SUBSET LatestKeys : STREAM_SCHEMAS_LATEST = [k \in keys |-> S1]
    /\ STREAM_SETTINGS = EmptyMap
    /\ STREAM_SETTINGS_ATOMIC = EmptyMap
    /\ STREAM_RECORD_ID_GENERATOR = EmptyMap
    /\ last = [op |-> "init", key |-> <<>>, outcome |-> "ok",
               had_schema |-> FALSE, had_gen |-> FALSE]
    /\ pending = <<>>
    /\ call = NoCall
    /\ inflight = <<>>
    /\ ENRICHMENT_TABLES = EmptyMap
    /\ \E n \in 0..MaxQueriers :
           enrich = [pc |-> "idle", found |-> {}, tables |-> {}, expect |-> n, observed |-> -1]
    /\ queriers \in 0..MaxQueriers
    /\ OthersIdle

EnrichFrame == UNCHANGED <<db, writes, engine, load_keys, caches, last, pending, call, inflight,
                           others>>

\* The keys of LatestSchema are scanned; with no enrichment table among
\* them the function returns Ok.
scan_tables ==
    /\ enrich.pc = "idle"
    /\ LET tables == {k \in DOMAIN STREAM_SCHEMAS_LATEST : is_enrichment_key(k)}
       IN enrich' = [enrich EXCEPT !.found = tables, !.tables = tables,
                                   !.pc = IF tables = {} THEN "Ok" ELSE "wait"]
    /\ UNCHANGED <<ENRICHMENT_TABLES, queriers>>
    /\ EnrichFrame

\* Mutant: the wait ends at the first poll.
quorum_reached_at_once(nodes, expect_querier_num) == TRUE

\* nodes.len() >= expect_querier_num
quorum_reached(nodes, expect_querier_num) == nodes >= expect_querier_num

\* One round of the wait loop: the online interactive queriers are looked
\* up (none when the lookup fails), and the loop ends or sleeps.
poll_queriers(lookup_ok) ==
    /\ enrich.pc = "wait"
    /\ LET nodes == IF lookup_ok THEN queriers ELSE 0
       IN enrich' = [enrich EXCEPT !.observed = nodes,
                                   !.pc = IF quorum_reached(nodes, enrich.expect)
                                          THEN "fill" ELSE "wait"]
    /\ UNCHANGED <<ENRICHMENT_TABLES, queriers>>
    /\ EnrichFrame

\* One round of the fill loop, in the order the HashMap yields: the table
\* is fetched, with `?`, and inserted.
load_table(key, fetch_ok) ==
    /\ enrich.pc = "fill"
    /\ key \in enrich.tables
    /\ IF fetch_ok
       THEN /\ ENRICHMENT_TABLES' = MapInsert(ENRICHMENT_TABLES, key,
                    [org_id |-> key[1], stream_name |-> key[3], data |-> "rows"])
            /\ enrich' = [enrich EXCEPT !.tables = @ \ {key},
                                        !.pc = IF enrich.tables = {key} THEN "Ok" ELSE "fill"]
       ELSE /\ enrich' = [enrich EXCEPT !.pc = "Err"]
            /\ UNCHANGED ENRICHMENT_TABLES
    /\ UNCHANGED queriers
    /\ EnrichFrame

\* A querier node comes online or goes offline.
querier_online ==
    /\ queriers < MaxQueriers
    /\ queriers' = queriers + 1
    /\ UNCHANGED <<ENRICHMENT_TABLES, enrich>>
    /\ EnrichFrame
querier_offline ==
    /\ queriers > 0
    /\ queriers' = queriers - 1
    /\ UNCHANGED <<ENRICHMENT_TABLES, enrich>>
    /\ EnrichFrame

AnyPoll == \E lookup_ok \in BOOLEAN : poll_queriers(lookup_ok)
AnyLoad == \E key \in LatestKeys, fetch_ok \in BOOLEAN : load_table(key, fetch_ok)

NextEnrich ==
    \/ scan_tables
    \/ \E lookup_ok \in BOOLEAN : poll_queriers(lookup_ok)
    \/ \E key \in LatestKeys, fetch_ok \in BOOLEAN : load_table(key, fetch_ok)
    \/ querier_online
    \/ querier_offline

SpecEnrich == InitEnrich /\ [][NextEnrich]_vars

\* The task is scheduled: the scan runs, the loop polls every second, and
\* each awaited fetch returns.
SpecEnrichFair ==
    SpecEnrich /\ WF_vars(scan_tables) /\ WF_vars(AnyPoll) /\ WF_vars(AnyLoad)

\* ------------------------------------------- file-data CacheStrategy
MaxEntries == 3
CacheKeys == {"a", "b", "c"}
CacheSizes == {1, 2}

\* CacheStrategy::new: "lru", "fifo", and anything else is LRU.
StrategyNames == {"lru", "fifo", "other"}
strategy_new(name) ==
    [strategy |-> IF name = "fifo" THEN "fifo" ELSE "lru", queue |-> <<>>, set |-> {}]

\* The entries of a queue but the i-th.
WithoutIndex(queue, i) ==
    [j \in 1..(Len(queue) - 1) |-> IF j < i THEN queue[j] ELSE queue[j + 1]]
\* The first index of the key in the queue, 0 when there is none.
IndexOfKey(queue, key) ==
    IF \E i \in DOMAIN queue : queue[i][1] = key
    THEN CHOOSE i \in DOMAIN queue :
             queue[i][1] = key /\ \A j \in DOMAIN queue : queue[j][1] = key => i <= j
    ELSE 0

\* insert: the LRU cache replaces the entry of the key and makes it the
\* most recently used; FIFO adds the key to the set and pushes the entry.
strategy_insert(c, key, value) ==
    IF c.strategy = "lru"
    THEN [c EXCEPT !.queue = Append(SelectSeq(c.queue, LAMBDA e : e[1] # key),
                                    <<key, value>>)]
    ELSE [c EXCEPT !.set = c.set \cup {key}, !.queue = Append(c.queue, <<key, value>>)]

\* remove: the least recently used entry, or the front of the queue.
strategy_remove(c) ==
    IF c.queue = <<>> THEN [cache |-> c, ret |-> None]
    ELSE IF c.strategy = "lru"
    THEN [cache |-> [c EXCEPT !.queue = Tail(c.queue)], ret |-> Some(Head(c.queue))]
    ELSE [cache |-> [c EXCEPT !.queue = Tail(c.queue), !.set = c.set \ {Head(c.queue)[1]}],
          ret |-> Some(Head(c.queue))]

\* Mutant: in the LRU cache the key asked for becomes the most recently
\* used.
strategy_contains_key_marks_used(c, key) ==
    LET i == IndexOfKey(c.queue, key)
    IN IF c.strategy = "lru"
       THEN [cache |-> IF i = 0 THEN c
                       ELSE [c EXCEPT !.queue = Append(WithoutIndex(c.queue, i), c.queue[i])],
             ret |-> i # 0]
       ELSE [cache |-> c, ret |-> key \in c.set]

\* contains_key(&self): the cache is left as it is.
strategy_contains_key(c, key) ==
    IF c.strategy = "lru"
    THEN [cache |-> c, ret |-> \E i \in DOMAIN c.queue : c.queue[i][1] = key]
    ELSE [cache |-> c, ret |-> key \in c.set]

strategy_len(c) == Len(c.queue)
strategy_is_empty(c) == c.queue = <<>>

\* remove_key: the entry of the key; FIFO removes the first entry of the
\* queue with that key, and the key from the set.
strategy_remove_key(c, key) ==
    LET i == IndexOfKey(c.queue, key)
    IN IF i = 0 THEN [cache |-> c, ret |-> None]
       ELSE IF c.strategy = "lru"
       THEN [cache |-> [c EXCEPT !.queue = WithoutIndex(c.queue, i)], ret |-> Some(c.queue[i])]
       ELSE [cache |-> [c EXCEPT !.queue = WithoutIndex(c.queue, i),
                                 !.set = c.set \ {c.queue[i][1]}],
             ret |-> Some(c.queue[i])]

\* A sequence of keys but the first occurrence of one.
DropKey(keys, key) ==
    IF \E i \in DOMAIN keys : keys[i] = key
    THEN LET i == CHOOSE i \in DOMAIN keys :
                      keys[i] = key /\ \A j \in DOMAIN keys : keys[j] = key => i <= j
         IN [j \in 1..(Len(keys) - 1) |-> IF j < i THEN keys[j] ELSE keys[j + 1]]
    ELSE keys
KeysIn(keys) == {keys[i] : i \in DOMAIN keys}

\* The cache after a call, with what the call was and returned (an entry
\* in ret, the answer of contains_key in found), and the
\* record of the calls so far: the keys inserted and not yet returned by
\* remove or remove_key, in the order of their insertion; whether every
\* insert was of a key not held; the held keys contains_key was asked for.
Called(op, arg, r, inserted, distinct, probed) ==
    file_cache' = [strategy |-> r.cache.strategy, queue |-> r.cache.queue, set |-> r.cache.set,
                   op |-> op, arg |-> arg,
                   ret |-> IF op = "contains_key" THEN None ELSE r.ret,
                   found |-> IF op = "contains_key" THEN r.ret ELSE FALSE,
                   inserted |-> inserted, distinct |-> distinct, probed |-> probed]

InitFileCache ==
    /\ db = [k \in ItemKeys |-> EmptyMap]
    /\ writes = 0
    /\ engine = "init"
    /\ load_keys = {}
    /\ STREAM_SCHEMAS = EmptyMap
    /\ STREAM_SCHEMAS_LATEST = EmptyMap
    /\ STREAM_SETTINGS = EmptyMap
    /\ STREAM_SETTINGS_ATOMIC = EmptyMap
    /\ STREAM_RECORD_ID_GENERATOR = EmptyMap
    /\ last = [op |-> "init", key |-> <<>>, outcome |-> "ok",
               had_schema |-> FALSE, had_gen |-> FALSE]
    /\ pending = <<>>
    /\ call = NoCall
    /\ inflight = <<>>
    /\ ENRICHMENT_TABLES = EmptyMap
    /\ enrich = [pc |-> "idle", found |-> {}, tables |-> {}, expect |-> 0, observed |-> -1]
    /\ queriers = 0
    /\ deleting = [pc |-> "idle"]
    /\ local_delete = [pc |-> "idle"]
    /\ \E name \in StrategyNames :
           LET c == strategy_new(name)
           IN file_cache = [strategy |-> c.strategy, queue |-> c.queue, set |-> c.set,
                            op |-> "new", arg |-> name, ret |-> None, found |-> FALSE,
                            inserted |-> <<>>, distinct |-> TRUE, probed |-> {}]

FileCacheFrame ==
    UNCHANGED <<db, writes, engine, load_keys, caches, last, pending, call, inflight,
                ENRICHMENT_TABLES, enrich, queriers, deleting, local_delete>>

cache_insert(key, value) ==
    /\ strategy_len(file_cache) < MaxEntries
    /\ Called("insert", key, [cache |-> strategy_insert(file_cache, key, value), ret |-> None],
              IF key \in KeysIn(file_cache.inserted) THEN file_cache.inserted
              ELSE Append(file_cache.inserted, key),
              file_cache.distinct /\ key \notin KeysIn(file_cache.inserted),
              file_cache.probed \cap KeysIn(file_cache.inserted))
    /\ FileCacheFrame

cache_remove ==
    /\ LET r == strategy_remove(file_cache)
           inserted == IF r.ret = None THEN file_cache.inserted
                       ELSE DropKey(file_cache.inserted, r.ret[1][1])
       IN Called("remove", "", r, inserted, file_cache.distinct,
                 file_cache.probed \cap KeysIn(file_cache.inserted))
    /\ FileCacheFrame

cache_contains_key(key) ==
    /\ LET r == strategy_contains_key(file_cache, key)
       IN Called("contains_key", key, r, file_cache.inserted, file_cache.distinct,
                 (file_cache.probed \cup {key}) \cap KeysIn(file_cache.inserted))
    /\ FileCacheFrame

cache_remove_key(key) ==
    /\ LET r == strategy_remove_key(file_cache, key)
           inserted == IF r.ret = None THEN file_cache.inserted
                       ELSE DropKey(file_cache.inserted, r.ret[1][1])
       IN Called("remove_key", key, r, inserted, file_cache.distinct,
                 file_cache.probed \cap KeysIn(inserted))
    /\ FileCacheFrame

NextFileCache ==
    \/ \E key \in CacheKeys, value \in CacheSizes : cache_insert(key, value)
    \/ cache_remove
    \/ \E key \in CacheKeys : cache_contains_key(key)
    \/ \E key \in CacheKeys : cache_remove_key(key)

SpecFileCache == InitFileCache /\ [][NextFileCache]_vars

\* ---------------------------------------------------------- Local::delete
\* for _ in 0..3
DeleteAttempts == 3
DeleteErrors == {"NotFound", "Generic", "PermissionDenied"}
DeleteLocations == {<<"files", "o1", "logs", "f1.parquet">>,
                    <<"files", "o2", "traces", "f2.parquet">>}

\* Mutant: the loop goes on after a successful attempt.
delete_attempt_without_break(d, outcome) ==
    [d EXCEPT !.result = outcome,
              !.attempts = Append(d.attempts, outcome),
              !.metrics = IF outcome = "Ok"
                          THEN d.metrics \cup {<<d.location[2], d.location[3], "local">>}
                          ELSE d.metrics,
              !.pc = "sleep"]

\* One pass of the loop up to the break: the result of client.delete is
\* kept; on success the write request is counted and the loop left.
delete_attempt(d, outcome) ==
    [d EXCEPT !.result = outcome,
              !.attempts = Append(d.attempts, outcome),
              !.metrics = IF outcome = "Ok"
                          THEN d.metrics \cup {<<d.location[2], d.location[3], "local">>}
                          ELSE d.metrics,
              !.pc = IF outcome = "Ok" THEN "returned" ELSE "sleep"]

InitLocalDelete ==
    /\ db = [k \in ItemKeys |-> EmptyMap]
    /\ writes = 0
    /\ engine = "init"
    /\ load_keys = {}
    /\ STREAM_SCHEMAS = EmptyMap
    /\ STREAM_SCHEMAS_LATEST = EmptyMap
    /\ STREAM_SETTINGS = EmptyMap
    /\ STREAM_SETTINGS_ATOMIC = EmptyMap
    /\ STREAM_RECORD_ID_GENERATOR = EmptyMap
    /\ last = [op |-> "init", key |-> <<>>, outcome |-> "ok",
               had_schema |-> FALSE, had_gen |-> FALSE]
    /\ pending = <<>>
    /\ call = NoCall
    /\ inflight = <<>>
    /\ ENRICHMENT_TABLES = EmptyMap
    /\ enrich = [pc |-> "idle", found |-> {}, tables |-> {}, expect |-> 0, observed |-> -1]
    /\ queriers = 0
    /\ deleting = [pc |-> "idle"]
    /\ file_cache = [strategy |-> "none"]
    /\ local_delete = [pc |-> "idle"]

LocalDeleteFrame ==
    UNCHANGED <<db, writes, engine, load_keys, caches, last, pending, call, inflight,
                ENRICHMENT_TABLES, enrich, queriers, deleting, file_cache>>

\* delete(location) is entered: result is Ok(()) and no pass was made.
local_delete_start(location) ==
    /\ local_delete.pc = "idle"
    /\ local_delete' = [pc |-> "attempt", location |-> location, i |-> 0, result |-> "Ok",
                        attempts |-> <<>>, metrics |-> {}]
    /\ LocalDeleteFrame

\* client.delete answers.
local_delete_attempt(outcome) ==
    /\ local_delete.pc = "attempt"
    /\ local_delete' = delete_attempt(local_delete, outcome)
    /\ LocalDeleteFrame

\* The 100 ms sleep after a failed attempt, then the next pass, or the
\* return of the result after the last one.
local_delete_sleep ==
    /\ local_delete.pc = "sleep"
    /\ local_delete' = [local_delete EXCEPT
                            !.i = local_delete.i + 1,
                            !.pc = IF local_delete.i + 1 < DeleteAttempts THEN "attempt"
                                   ELSE "returned"]
    /\ LocalDeleteFrame

NextLocalDelete ==
    \/ \E location \in DeleteLocations : local_delete_start(location)
    \/ \E outcome \in DeleteErrors \cup {"Ok"} : local_delete_attempt(outcome)
    \/ local_delete_sleep

SpecLocalDelete == InitLocalDelete /\ [][NextLocalDelete]_vars

\* ================================================================ claims
\* The engine is between two events (or cache() between two keys): it has
\* not died in the middle of a handler.
AtRest == engine # "panicked"

StartDtsOf(h) == {h[i][1] : i \in 1..Len(h)}
IsMaxEntry(h, i) == \A j \in 1..Len(h) : h[j][1] <= h[i][1]

\* C1: whenever the engine has finished an event (and after bulk load), for
\* every key with a non-empty VersionHistory, LatestSchema is the snapshot of
\* the history entry with the maximum start_dt.
C1_LatestIsMaxStartDt ==
    AtRest =>
        \A k \in DOMAIN STREAM_SCHEMAS :
            \A i \in 1..Len(STREAM_SCHEMAS[k]) :
                IsMaxEntry(STREAM_SCHEMAS[k], i) =>
                    /\ k \in DOMAIN STREAM_SCHEMAS_LATEST
                    /\ STREAM_SCHEMAS_LATEST[k] = STREAM_SCHEMAS[k][i][2]

InNoMap(k) ==
    /\ k \notin DOMAIN STREAM_SCHEMAS
    /\ k \notin DOMAIN STREAM_SCHEMAS_LATEST
    /\ k \notin DOMAIN STREAM_SETTINGS
    /\ k \notin DOMAIN STREAM_RECORD_ID_GENERATOR

\* C2: right after a full-stream Delete event (a key without start_dt
\* segment) the stream key is in none of VersionHistory, LatestSchema,
\* Settings and the generator registry.
C2_FullDeleteClearsAllMaps ==
    (last.op = "Delete" /\ Len(last.key) = 3) => InNoMap(last.key)

\* A full-stream Delete event was applied to a key that was cached and had a
\* generator.
C2_Witness ==
    /\ last.op = "Delete" /\ Len(last.key) = 3 /\ last.outcome = "full"
    /\ last.had_schema /\ last.had_gen
    /\ InNoMap(last.key)

StrictlyAscending(h) == \A i \in 1..(Len(h) - 1) : h[i][1] < h[i + 1][1]

\* C4: a key's VersionHistory is in strictly ascending start_dt order.
C4_HistoryStrictlyAscending ==
    AtRest => \A k \in DOMAIN STREAM_SCHEMAS : StrictlyAscending(STREAM_SCHEMAS[k])

\* The last element of the stored snapshot list of <<k, dt>>.
StoredSnapshot(k, dt) == decode_row(<<dt, db[k][dt]>>)[2]

\* C5: once the Put event of every write has been applied, a key's
\* VersionHistory holds exactly one entry per stored start_dt bucket, with
\* the last element of the bucket's snapshot list.
C5_HistoryMatchesStore ==
    (engine = "watch" /\ pending = <<>>) =>
        \A k \in StoredKeys :
            LET h == IF k \in DOMAIN STREAM_SCHEMAS THEN STREAM_SCHEMAS[k] ELSE <<>>
            IN /\ StartDtsOf(h) = DOMAIN db[k]
               /\ Len(h) = Cardinality(DOMAIN db[k])
               /\ \A i \in 1..Len(h) : h[i][1] \in DOMAIN db[k] =>
                                          h[i][2] = StoredSnapshot(k, h[i][1])

SettingsOf(schema) == unwrap_or_default(unwrap_stream_settings(schema), DefaultSettings)

AnyPut == \E ev \in PutEvents, list_ok \in BOOLEAN : watch_put(ev, list_ok)
AnyCacheKey == \E k \in ItemKeys : cache_key(k)
VersionDelete ==
    \E ev \in DeleteEvents : delete_start_dt(strip_prefix(ev.key)) > 0 /\ watch_delete(ev)
FullDeletionOf(k) ==
    \/ \E ev \in DeleteEvents : strip_prefix(ev.key) = k /\ watch_delete(ev)
    \/ stream_delete_inner(k, TRUE)

C9_GeneratorOnlyRemovedByFullDeletion ==
    [][/\ (AnyPut \/ VersionDelete) =>
              DOMAIN STREAM_RECORD_ID_GENERATOR \subseteq DOMAIN STREAM_RECORD_ID_GENERATOR'
       /\ \A k \in DOMAIN STREAM_RECORD_ID_GENERATOR :
              k \notin DOMAIN STREAM_RECORD_ID_GENERATOR' => FullDeletionOf(k)]_vars

\* A Put event whose current snapshot sets neither flag was applied to a key
\* that had a generator, and the generator is still registered.
C9_Witness ==
    /\ last.op = "Put" /\ last.outcome = "applied" /\ last.had_gen
    /\ ~needs_record_id(STREAM_SETTINGS[last.key])
    /\ last.key \in DOMAIN STREAM_RECORD_ID_GENERATOR

AllDeleteEvents ==
    {[key |-> SchemaKey(k)] : k \in ItemKeys}
    \cup {[key |-> SchemaKey(k) \o <<seg>>] : k \in ItemKeys, seg \in DtSegments}

\* C11: in every state of the cache, the Delete arm applied to an event whose
\* key carries a start_dt segment greater than 0 leaves the five cache maps
\* as they are and performs no cleanup step.
C11_VersionedDeleteIsNoOp ==
    \A ev \in AllDeleteEvents, dir_on_local_disk \in BOOLEAN :
        (Len(ev.key) = 6 /\ ev.key[6] \in {DtText(n) : n \in 1..MaxDt}) =>
            LET r == delete_event(Cache, ev, dir_on_local_disk)
            IN r.c = Cache /\ r.cleanup = <<>>

\* The engine applied a Delete event with a positive start_dt segment to a
\* stream that is cached and has a generator, and both are still there.
C11_Witness ==
    /\ last.op = "Delete" /\ last.outcome = "version"
    /\ Len(last.key) = 4 /\ last.key[4] \in {DtText(n) : n \in 1..MaxDt}
    /\ SubSeq(last.key, 1, 3) \in DOMAIN STREAM_SCHEMAS
    /\ SubSeq(last.key, 1, 3) \in DOMAIN STREAM_SETTINGS_ATOMIC
    /\ SubSeq(last.key, 1, 3) \in DOMAIN STREAM_RECORD_ID_GENERATOR

LastOf(seq) == seq[Len(seq)]
MaxOf(S) == CHOOSE x \in S : \A y \in S : y <= x
\* Every stored bucket of k holds a non-empty snapshot list.
AllBucketsDecode(k) ==
    \A dt \in DOMAIN db[k] : db[k][dt].ok /\ db[k][dt].list # <<>>

C13_UndecodableKeySkipped ==
    engine \in {"watch", "failed", "panicked"} =>
        /\ engine = "watch"
        /\ \A k \in ItemKeys :
               (DOMAIN db[k] # {} /\ AllBucketsDecode(k)) => k \in DOMAIN STREAM_SCHEMAS

Returned(fn) == call.fn = fn /\ call.done
MinOf(S) == CHOOSE x \in S : \A y \in S : x <= y
\* The end_dt a schema records, 0 when it records none.
RecordedEndDt(schema) == IF schema.end_dt = None THEN 0 ELSE ParseEndDt(schema.end_dt[1])
\* The 1-based positions of the versions whose end_dt exceeds q.
Exceeding(v, q) == {i \in 1..Len(v) : RecordedEndDt(v[i]) > q}

\* C14: filter_schema_version_id returns the 0-based index of the first
\* version in list order whose end_dt exceeds the query end_dt, the index of
\* the last version when none does, none on an empty list; an index it
\* returns is within the list.
C14_SelectorFirstExceeding ==
    Returned("filter_schema_version_id") =>
        LET v == call.args.schemas
            q == call.args.end_dt
        IN /\ Len(v) = 0 => call.ret = None
           /\ (Len(v) > 0 /\ Exceeding(v, q) # {}) => call.ret = Some(MinOf(Exceeding(v, q)) - 1)
           /\ (Len(v) > 0 /\ Exceeding(v, q) = {}) => call.ret = Some(Len(v) - 1)
           /\ call.ret # None => call.ret[1] \in 0..(Len(v) - 1)

\* The selector returned a version that is neither the first nor the last,
\* having passed over one whose end_dt equals the query's.
C14_Witness ==
    /\ Returned("filter_schema_version_id")
    /\ Len(call.args.schemas) = 3
    /\ RecordedEndDt(call.args.schemas[1]) = call.args.end_dt
    /\ call.args.end_dt > 0
    /\ call.ret = Some(1)

\* The 1-based positions of the versions that record no end_dt, or 0.
Unsuperseded(v) == {i \in 1..Len(v) : RecordedEndDt(v[i]) = 0}

\* C15 as stated: when the scan reaches a version whose end_dt is absent or
\* 0 before any version whose end_dt exceeds the query end_dt, the index of
\* that version is returned.
C15_EndDtZeroIsInfinite ==
    Returned("filter_schema_version_id") =>
        LET v == call.args.schemas
            hits == Exceeding(v, call.args.end_dt) \cup Unsuperseded(v)
        IN (hits # {} /\ MinOf(hits) \in Unsuperseded(v)) => call.ret = Some(MinOf(hits) - 1)

\* C15 amended: a version whose end_dt is absent or 0 is read as end_dt 0:
\* for a query end_dt >= 0 its index is returned exactly when it is the last
\* version of the list and no version's end_dt exceeds the query end_dt.
C15_EndDtZeroReadAsZero ==
    Returned("filter_schema_version_id") =>
        LET v == call.args.schemas
            q == call.args.end_dt
        IN \A i \in Unsuperseded(v) :
               q >= 0 => (call.ret = Some(i - 1) <=> (i = Len(v) /\ Exceeding(v, q) = {}))

\* The scan passed over a first version without end_dt and returned a later
\* version whose end_dt exceeds the query's.
C15_Witness ==
    /\ Returned("filter_schema_version_id")
    /\ Len(call.args.schemas) >= 2
    /\ call.args.schemas[1].end_dt = None
    /\ call.args.end_dt >= 0
    /\ call.ret = Some(1)
    /\ RecordedEndDt(call.args.schemas[2]) > call.args.end_dt

\* C16: the re-fetch range of a Put event with start_dt e and previous
\* start_dt p is the unranged listing when e = 0 and p = 0; otherwise
\* [p, now] when e = 0 or 0 < p < e; otherwise [e, now]; its lower bound is
\* min(p, e) whenever both are positive.
C16_RefetchRange ==
    Returned("ts_range") =>
        LET e == call.args.ev_start_dt
            p == call.args.prev
            from_prev == e = 0 \/ (p > 0 /\ e > p)
        IN /\ (e = 0 /\ p = 0) => call.ret = None
           /\ (~(e = 0 /\ p = 0) /\ from_prev) => call.ret = Some(<<p, now_micros>>)
           /\ (~(e = 0 /\ p = 0) /\ ~from_prev) => call.ret = Some(<<e, now_micros>>)
           /\ (e > 0 /\ p > 0) => call.ret[1][1] = (IF p < e THEN p ELSE e)

\* The range of an event newer than the previous cached version starts at
\* the previous start_dt.
C16_Witness ==
    /\ Returned("ts_range")
    /\ call.args.prev > 0
    /\ call.args.ev_start_dt > call.args.prev
    /\ call.ret = Some(<<call.args.prev, now_micros>>)

\* The entries cached for the key of a call, none when the key is unseen.
CachedFor(args) ==
    IF args.item_key \in DOMAIN args.schemas_map THEN args.schemas_map[args.item_key] ELSE <<>>

\* C17 as stated: the previous start_dt is 0 when the key is unseen or has
\* fewer than two cached entries, and the start_dt of the second-to-last
\* cached entry otherwise.
C17_PrevZeroBelowTwoEntries ==
    Returned("prev_start_dt") =>
        LET h == CachedFor(call.args)
        IN /\ Len(h) < 2 => call.ret = 0
           /\ Len(h) >= 2 => call.ret = h[Len(h) - 1][1]

\* C17 amended: the previous start_dt is 0 when the key is unseen, the
\* start_dt of the only cached entry when exactly one is cached, and the
\* start_dt of the second-to-last cached entry otherwise.
C17_PrevStartDt ==
    Returned("prev_start_dt") =>
        LET h == CachedFor(call.args)
        IN /\ call.args.item_key \notin DOMAIN call.args.schemas_map => call.ret = 0
           /\ Len(h) = 1 => call.ret = h[1][1]
           /\ Len(h) >= 2 => call.ret = h[Len(h) - 1][1]

\* The previous start_dt of a key with one cached entry is that entry's.
C17_Witness ==
    /\ Returned("prev_start_dt")
    /\ Len(CachedFor(call.args)) = 1
    /\ call.ret = CachedFor(call.args)[1][1]
    /\ call.ret > 0

\* The entries of h whose component c (1: start_dt, 2: snapshot) is the
\* component c of no entry of v, in the order of h.
KeptBy(c, h, v) == SelectSeq(h, LAMBDA x : \A i \in 1..Len(v) : v[i][c] # x[c])

AnyDelete == \E ev \in DeleteEvents : watch_delete(ev)

\* C19: the engine is still running after every Put or Delete event: a bad
\* event is skipped, never the end of the loop.
C19_BadEventIsSkipped ==
    [][(AnyPut \/ AnyDelete) => engine' = "watch"]_vars

\* C20: when the event channel closes the engine leaves its loop with an
\* error for its caller, and from then on it stays stopped and applies no
\* event.
C20_ChannelCloseIsFatal ==
    [][/\ channel_closed => (engine' = "closed" /\ last'.outcome = "Err")
       /\ engine = "closed" => (engine' = "closed" /\ ~AnyPut /\ ~AnyDelete)]_vars

AnyRecv ==
    \/ \E ev \in FeedPuts, list_ok \in BOOLEAN : recv_put(ev, list_ok)
    \/ \E ev \in FeedDeletes : recv_delete(ev)

\* C21: at most one event is being applied at any time, and an event is
\* read from the feed only when every write of the event before it is done.
C21_OneEventAtATime ==
    /\ [](Len(inflight) <= 1)
    /\ [][AnyRecv => inflight = <<>>]_vars

\* The engine is in the middle of a Put event of one stream (Settings
\* written, LatestSchema not yet) after it fully applied an event of the
\* other stream.
C21_Witness ==
    /\ Len(inflight) = 1
    /\ inflight[1].kind = "Put" /\ inflight[1].pc = "latest"
    /\ inflight[1].item_key = K2
    /\ K2 \in DOMAIN STREAM_SETTINGS /\ K2 \notin DOMAIN STREAM_SCHEMAS_LATEST
    /\ K1 \in DOMAIN STREAM_SCHEMAS

\* The four maps of C22; of the registry, which keys are registered.
FourMaps == <<STREAM_SCHEMAS, STREAM_SCHEMAS_LATEST, STREAM_SETTINGS,
              DOMAIN STREAM_RECORD_ID_GENERATOR>>
AnyMutation ==
    \/ \E k \in StoredKeys, dt \in StartDts, bytes \in Payloads : schema_put(k, dt, bytes)
    \/ \E k \in StoredKeys, dt \in StartDts : schema_delete_version(k, dt)
    \/ \E k \in StoredKeys : delete(k)
AnyStreamDeleteInner == \E k \in StoredKeys, r \in BOOLEAN : stream_delete_inner(k, r)

\* C22 (as stated): a mutating operation leaves the four maps as they were,
\* and once the engine runs they change only by a Put or Delete event.
C22_OnlyEventsChangeCache ==
    [][/\ AnyMutation => FourMaps' = FourMaps
       /\ (engine = "watch" /\ FourMaps' # FourMaps) => (AnyPut \/ AnyDelete)]_vars

\* C22 (amended): a mutating operation leaves the four maps as they were;
\* once the engine runs they change by a Put or Delete event, or by the
\* removal the service-level stream deletion does itself.
C22_MutationsLeaveCache ==
    [][/\ AnyMutation => FourMaps' = FourMaps
       /\ (engine = "watch" /\ FourMaps' # FourMaps)
              => (AnyPut \/ AnyDelete \/ AnyStreamDeleteInner)]_vars

\* A stream was deleted from the store while the engine runs, and its key
\* is still in every map, generator included.
C22_Witness ==
    /\ engine = "watch" /\ writes > 0
    /\ DOMAIN db[K1] = {}
    /\ K1 \in DOMAIN STREAM_SCHEMAS /\ K1 \in DOMAIN STREAM_SCHEMAS_LATEST
    /\ K1 \in DOMAIN STREAM_SETTINGS /\ K1 \in DOMAIN STREAM_RECORD_ID_GENERATOR

\* The enqueue calls in the trace of a returned mutating call.
IsEnqueue(step) == step.what \in {"queue::schema_merge", "queue::schema_setting",
                                  "queue::schema_delete_fields", "queue::delete",
                                  "queue::stream_delete"}
EnqueuesAt(trace) == {i \in DOMAIN trace : IsEnqueue(trace[i])}

\* C23: a mutating operation calls the queue only after its store write
\* answered Ok and only with replication enabled; a failed store write is
\* returned with no enqueue made, and a failed enqueue is returned.
C23_EnqueueAfterStore ==
    Returned("mutate") =>
        LET a == call.args
            t == call.ret.trace
        IN /\ t[1].what = "infra::schema"
           /\ EnqueuesAt(t) # {} => (t[1].ok /\ a.enterprise /\ a.enabled)
           /\ ~a.store_ok => (call.ret.ret = "Err(store)" /\ EnqueuesAt(t) = {})
           /\ (\E i \in EnqueuesAt(t) : ~t[i].ok) => call.ret.ret = "Err(queue)"
           /\ \A i \in EnqueuesAt(t) : ~t[i].ok => i = Len(t)

\* delete of an enrichment table with replication on: the store write and
\* queue::delete succeed, queue::stream_delete fails and is returned.
C23_Witness ==
    /\ Returned("mutate")
    /\ call.args.op = "delete" /\ call.args.enrichment /\ ~call.args.aux_ok
    /\ Len(call.ret.trace) = 5
    /\ call.ret.trace[4] = Step("queue::delete", TRUE)
    /\ call.ret.trace[5] = Step("queue::stream_delete", FALSE)
    /\ call.ret.ret = "Err(queue)"

\* The cleanup calls a full deletion of item_key has to make, in order.
CleanupDue(item_key, dir_on_local_disk) ==
    LET enrichment == item_key[2] = "enrichment_tables"
    IN <<"remove_stream_stats", "del_offset">>
       \o (IF enrichment /\ dir_on_local_disk THEN <<"remove_dir_all">> ELSE <<>>)
       \o (IF enrichment THEN <<"enrichment_local_cache_delete">> ELSE <<>>)

\* C24: on a full-stream Delete event, whichever cleanup calls fail, the
\* key is out of the four maps, every cleanup call due is made, each with
\* its own answer, and the engine goes on.
C24_CleanupStepsIndependent ==
    (Returned("delete_arm") /\ Len(call.args.ev.key) = 5) =>
        LET a == call.args
            k == SubSeq(a.ev.key, 3, 5)
            r == call.ret
            due == CleanupDue(k, a.dir_on_local_disk)
        IN /\ k \notin DOMAIN r.c.schemas /\ k \notin DOMAIN r.c.latest
           /\ k \notin DOMAIN r.c.settings /\ k \notin DOMAIN r.c.gen
           /\ Len(r.trace) = Len(due)
           /\ \A i \in DOMAIN due :
                  r.trace[i] = [what |-> due[i], ok |-> due[i] \notin a.fails]
           /\ r.engine = "watch"

\* The cached enrichment table is deleted and all three fallible cleanup
\* calls fail: each of them was made.
C24_Witness ==
    /\ Returned("delete_arm")
    /\ call.args.ev.key = SchemaKey(K2) /\ K2 \in DOMAIN call.args.c.schemas
    /\ call.args.fails = FallibleCleanup
    /\ Len(call.ret.trace) = 4
    /\ \A i \in 2..4 : ~call.ret.trace[i].ok
    /\ K2 \notin DOMAIN call.ret.c.settings

\* The enrichment-type keys of LatestSchema, spelled by their type column.
EnrichmentKeys == {k \in DOMAIN STREAM_SCHEMAS_LATEST : k[2] = "enrichment_tables"}
Loaded == DOMAIN ENRICHMENT_TABLES
QuorumObserved == enrich.observed >= enrich.expect

\* C25 (as stated): once the quorum is observed every enrichment-type key
\* of LatestSchema is loaded when the function has returned.
C25_LoadsEveryTable ==
    (enrich.pc \in {"Ok", "Err"} /\ QuorumObserved) => Loaded = EnrichmentKeys

\* C25 (amended): no table is in the enrichment map before a poll observed
\* the expected number of queriers; a poll that observes fewer leaves the
\* loader waiting with nothing inserted; once the quorum is observed the
\* loader returns, Ok with every enrichment-type key loaded, or the error
\* of the first fetch that fails, with only tables fetched before it
\* loaded; with no enrichment-type key the scan returns Ok at once.
C25_QuorumThenLoad ==
    /\ [](Loaded # {} => QuorumObserved)
    /\ [](enrich.pc = "wait" => Loaded = {})
    /\ [][(enrich.pc = "wait" /\ enrich'.observed < enrich.expect)
              => (enrich'.pc = "wait" /\ ENRICHMENT_TABLES' = ENRICHMENT_TABLES)]_vars
    /\ [][(enrich.pc = "wait" /\ enrich'.pc = "fill") => enrich'.observed >= enrich.expect]_vars
    /\ [](enrich.pc = "Ok" => Loaded = EnrichmentKeys)
    /\ [](enrich.pc = "Err" => (QuorumObserved /\ Loaded \subseteq EnrichmentKeys
                                  /\ Loaded # EnrichmentKeys))
    /\ [][(enrich.pc = "idle" /\ enrich'.pc # "idle" /\ EnrichmentKeys = {})
              => (enrich'.pc = "Ok" /\ enrich'.observed = -1)]_vars
    /\ (enrich.pc = "fill") ~> (enrich.pc \in {"Ok", "Err"})

\* Two enrichment tables were found, two queriers were expected and
\* observed, one table was loaded and the fetch of the other failed.
C25_Witness ==
    /\ enrich.pc = "Err"
    /\ enrich.expect = 2 /\ enrich.observed = 2
    /\ EnrichmentKeys = {K2, K3}
    /\ Cardinality(Loaded) = 1

\* The start_dts of the history cached for k, none when k is not cached.
HistoryDts(schemas_map, k) ==
    IF k \in DOMAIN schemas_map THEN StartDtsOf(schemas_map[k]) ELSE {}

\* C26: across a Put event every cached key keeps its history and every
\* start_dt in it; a step after which a start_dt is gone from a key's
\* history is a full deletion of that key.
C26_HistoryAppendOnly ==
    [][/\ AnyPut => \A k \in DOMAIN STREAM_SCHEMAS :
                        /\ k \in DOMAIN STREAM_SCHEMAS'
                        /\ StartDtsOf(STREAM_SCHEMAS[k]) \subseteq StartDtsOf(STREAM_SCHEMAS'[k])
       /\ \A k \in ItemKeys :
              ~(HistoryDts(STREAM_SCHEMAS, k) \subseteq HistoryDts(STREAM_SCHEMAS', k))
                  => FullDeletionOf(k)]_vars

\* A Put event was applied to a cached key whose history holds a start_dt
\* the store no longer has: the listing did not return it, and it is kept.
C26_Witness ==
    /\ last.op = "Put" /\ last.outcome = "applied" /\ last.had_schema
    /\ last.key \in DOMAIN STREAM_SCHEMAS
    /\ Len(STREAM_SCHEMAS[last.key]) >= 2
    /\ \E dt \in StartDtsOf(STREAM_SCHEMAS[last.key]) : dt \notin DOMAIN db[last.key]

\* C27: the mirrored snapshot holds the same keys and values as the
\* Settings map after every Put event, full-stream Delete event, bulk-load
\* key and service-level stream deletion.
C27_MirrorEqualsSettings ==
    /\ DOMAIN STREAM_SETTINGS_ATOMIC = DOMAIN STREAM_SETTINGS
    /\ \A k \in DOMAIN STREAM_SETTINGS : STREAM_SETTINGS_ATOMIC[k] = STREAM_SETTINGS[k]

\* The service-level deletion removed a cached stream: its key is gone
\* from Settings and from the mirror.
C27_Witness ==
    /\ last.op = "stream_delete_inner" /\ last.outcome = "removed" /\ last.had_schema
    /\ last.key \notin DOMAIN STREAM_SETTINGS
    /\ last.key \notin DOMAIN STREAM_SETTINGS_ATOMIC

\* C28: a Put event that is not applied (the listing fails or is empty, the
\* latest payload does not parse or holds an empty list, or another
\* payload does not decode) leaves the five maps as they were.
C28_SkippedPutLeavesCache ==
    [][(AnyPut /\ last'.outcome # "applied") => UNCHANGED caches]_vars

\* The integer a segment reads as, 0 when it reads as none.
SegmentValue(seg) ==
    IF \E n \in 0..MaxDt : ToString(n) = seg
    THEN CHOOSE n \in 0..MaxDt : ToString(n) = seg
    ELSE 0

\* C29: a Put event's key of more than five segments decodes to its first
\* five segments and the value of the sixth (0 when it is no integer); a
\* shorter key decodes to itself and the event's start_dt field, 0 when
\* the field is absent.
C29_PutKeyDecode ==
    Returned("put_key") =>
        LET ev == call.args.ev
            n == Len(ev.key)
        IN IF n > 5
           THEN /\ call.ret.ev_key = [i \in 1..5 |-> ev.key[i]]
                /\ call.ret.ev_start_dt = SegmentValue(ev.key[6])
           ELSE /\ call.ret.ev_key = ev.key
                /\ call.ret.ev_start_dt = (IF ev.start_dt = <<>> THEN 0 ELSE ev.start_dt[1])

\* A key of seven segments whose sixth reads 2, in an event whose start_dt
\* field says 1: the key decodes to five segments and start_dt 2.
C29_Witness ==
    /\ Returned("put_key")
    /\ Len(call.args.ev.key) = 7 /\ call.args.ev.key[6] = "2"
    /\ call.args.ev.start_dt = <<1>>
    /\ call.ret.ev_key = SchemaKey(K1) /\ call.ret.ev_start_dt = 2

\* C30: after a Delete event whose key carries a start_dt segment that is 0
\* or no integer, org/type/name is in none of the four maps.
C30_ZeroStartDtDeletesStream ==
    (last.op = "Delete" /\ Len(last.key) = 4 /\ last.outcome = "full")
        => InNoMap(SubSeq(last.key, 1, 3))

\* C31: the Put arm calls organization creation only with one of the three
\* switches on and the event's org_id absent from the organization cache,
\* and only after the cache writes of the event; when the creation fails
\* the error is logged, the cache is as the event's writes left it and the
\* engine is at the loop.
C31_OrgCreationLoggedOnly ==
    Returned("put_arm") =>
        LET a == call.args
            r == call.ret
            k == SubSeq(a.ev.key, 3, 5)
        IN /\ r.org_calls # <<>> =>
                  /\ r.org_calls = <<a.ev.key[3]>>
                  /\ a.cfg.create_org_through_ingestion \/ a.cfg.usage_enabled
                        \/ a.cfg.audit_enabled
                  /\ a.ev.key[3] \notin a.orgs
                  /\ r.outcome = "applied"
           /\ (r.org_calls # <<>> /\ ~a.create_ok) =>
                  /\ r.logged
                  /\ r.engine = "watch"
                  /\ r.c = put_event(a.c, a.d, a.ev, a.list_ok).c
                  /\ k \in DOMAIN r.c.schemas /\ k \in DOMAIN r.c.latest
                  /\ k \in DOMAIN r.c.settings
           /\ r.logged => (r.org_calls # <<>> /\ ~a.create_ok)

\* Usage tracking alone is on, o1 is not a cached organization, the Put
\* event of an uncached stream is applied and creating o1 fails.
C31_Witness ==
    /\ Returned("put_arm")
    /\ call.args.cfg = [create_org_through_ingestion |-> FALSE, usage_enabled |-> TRUE,
                        audit_enabled |-> FALSE]
    /\ call.args.orgs = {"o2"} /\ ~call.args.create_ok
    /\ K1 \notin DOMAIN call.args.c.schemas
    /\ call.ret.org_calls = <<"o1">> /\ call.ret.logged
    /\ K1 \in DOMAIN call.ret.c.schemas /\ call.ret.engine = "watch"

\* No event is being applied and no stream_delete_inner is running.
Quiescent == inflight = <<>> /\ deleting.pc \in {"idle", "Ok", "Err"}

\* C33: once the engine and stream_delete_inner have both finished, no key
\* is in VersionHistory while it is neither in LatestSchema nor in Settings.
C33_NotHalfPresent ==
    Quiescent => \A k \in ItemKeys :
        ~(/\ k \in DOMAIN STREAM_SCHEMAS
          /\ k \notin DOMAIN STREAM_SCHEMAS_LATEST
          /\ k \notin DOMAIN STREAM_SETTINGS)

\* The settings a snapshot carries, the default ones when it carries none.
DerivedFrom(schema) ==
    IF schema.settings.present
    THEN [store_original_data |-> schema.settings.store_original_data,
          index_original_data |-> schema.settings.index_original_data]
    ELSE [store_original_data |-> FALSE, index_original_data |-> FALSE]
\* A Put event of k is in flight with Settings written and LatestSchema not.
SettingsAhead(k) ==
    \E i \in DOMAIN inflight :
        /\ inflight[i].kind = "Put" /\ inflight[i].item_key = k /\ inflight[i].pc = "latest"
        /\ STREAM_SETTINGS[k] = DerivedFrom(inflight[i].latest_schema)

\* C32: a Put event writes Settings with the mirror, then LatestSchema,
\* then VersionHistory, one map per step. A reader finds the Settings of a
\* key derived from its LatestSchema, or from the snapshot the Put in
\* flight is about to publish, never the other way round; and the history
\* is written only with the new LatestSchema in place.
C32_PutWriteOrder ==
    /\ [](\A k \in DOMAIN STREAM_SCHEMAS_LATEST \cap DOMAIN STREAM_SETTINGS :
            \/ STREAM_SETTINGS[k] = DerivedFrom(STREAM_SCHEMAS_LATEST[k])
            \/ SettingsAhead(k))
    /\ [][\A i \in DOMAIN inflight :
            LET h == inflight[i]
                k == h.item_key
            IN /\ put_settings(i) =>
                      UNCHANGED <<STREAM_SCHEMAS_LATEST, STREAM_SCHEMAS>>
               /\ put_latest(i) =>
                      /\ UNCHANGED <<STREAM_SETTINGS, STREAM_SETTINGS_ATOMIC, STREAM_SCHEMAS>>
                      /\ k \in DOMAIN STREAM_SETTINGS =>
                             STREAM_SETTINGS[k] = DerivedFrom(h.latest_schema)
               /\ put_history(i) =>
                      /\ UNCHANGED <<STREAM_SETTINGS, STREAM_SETTINGS_ATOMIC,
                                     STREAM_SCHEMAS_LATEST>>
                      /\ k \in DOMAIN STREAM_SCHEMAS_LATEST =>
                             STREAM_SCHEMAS_LATEST[k] = h.latest_schema]_vars

\* A reader's view in the middle of a Put event: Settings is already the
\* one of the new snapshot, LatestSchema is still the old snapshot, whose
\* settings differ.
C32_Witness ==
    /\ K1 \in DOMAIN STREAM_SCHEMAS_LATEST /\ K1 \in DOMAIN STREAM_SETTINGS
    /\ SettingsAhead(K1)
    /\ STREAM_SETTINGS[K1] # DerivedFrom(STREAM_SCHEMAS_LATEST[K1])
    /\ deleting.pc = "idle"

\* The key is in none of the four maps of the cache c, nor in the mirror.
ClearedIn(c, k) ==
    /\ k \notin DOMAIN c.schemas /\ k \notin DOMAIN c.latest
    /\ k \notin DOMAIN c.settings /\ k \notin DOMAIN c.gen
    /\ c.atomic = c.settings

\* C34: stream_delete_inner removes the key only with the retention job
\* created: when creating the job fails the error is returned and the maps
\* are as before; when the compaction-offset deletion fails the error is
\* returned with the key removed from the four maps.
C34_RemovalAfterRetentionJob ==
    Returned("stream_delete_inner") =>
        LET a == call.args
            r == call.ret
        IN /\ r.c # a.c => a.retention_ok
           /\ ~a.retention_ok => (r.ret \in {"Err(retention)", "Err(associations)"}
                                    /\ r.c = a.c)
           /\ (a.assoc_ok /\ ~a.retention_ok) => r.ret = "Err(retention)"
           /\ (a.assoc_ok /\ a.retention_ok) => ClearedIn(r.c, a.key)
           /\ (a.assoc_ok /\ a.retention_ok /\ ~a.offset_ok) => r.ret = "Err(del_offset)"
           /\ (a.assoc_ok /\ a.retention_ok /\ a.offset_ok) => r.ret = "Ok"

\* The cached stream is removed from the four maps and the call returns
\* the error of the compaction-offset deletion.
C34_Witness ==
    /\ Returned("stream_delete_inner")
    /\ call.args.key = K1 /\ K1 \in DOMAIN call.args.c.schemas
    /\ K2 \in DOMAIN call.args.c.schemas
    /\ call.ret.ret = "Err(del_offset)"
    /\ ClearedIn(call.ret.c, K1) /\ K2 \in DOMAIN call.ret.c.settings

\* The cached keys of an organization, of one stream type when one is given.
ListedKeys(latest, org_id, stream_type) ==
    {k \in DOMAIN latest : k[1] = org_id /\ (stream_type = <<>> \/ k[2] = stream_type[1])}

\* C35: list reads the store only when LatestSchema holds no key at all;
\* otherwise it returns one entry per cached key of the organization (and
\* type), none when there is none, each with the cached latest schema when
\* fetch_schema is true and with the empty schema when it is false.
C35_ListFromCache ==
    Returned("list") =>
        LET a == call.args
            r == call.ret
            keys == ListedKeys(a.latest, a.org_id, a.stream_type)
        IN /\ r.store_read <=> a.latest = <<>>
           /\ a.latest # <<>> =>
                  /\ r.ret = "Ok"
                  /\ Cardinality(r.entries) = Cardinality(keys)
                  /\ \A k \in keys : \E e \in r.entries :
                         /\ e.stream_type = k[2] /\ e.stream_name = k[3]
                         /\ e.schema = IF a.fetch_schema THEN a.latest[k]
                                       ELSE [fields |-> "", settings |-> NoSettingsMeta]

\* The cache holds streams of o2 only and the store holds o1/logs/s1: list
\* for o1 returns no entry and does not read the store.
C35_Witness ==
    /\ Returned("list")
    /\ DOMAIN call.args.latest = {K5} /\ call.args.org_id = "o1"
    /\ DOMAIN call.args.d[K1] # {}
    /\ call.ret.entries = {} /\ ~call.ret.store_read /\ call.ret.ret = "Ok"

\* The value a flag has after the request: the requested one when there is
\* one, the stored one otherwise.
Requested(stored, option) == IF option = <<>> THEN stored ELSE option[1]

\* C36: the settings update_stream_settings hands on to be saved have
\* store_original_data on whenever index_original_data is on, and never
\* index_original_data and index_all_values both on; a request that makes
\* both on is answered bad request and nothing is handed on.
C36_FlagsConsistent ==
    Returned("update_stream_settings") =>
        LET a == call.args
            r == call.ret
            index == Requested(a.settings.index_original_data, a.new_settings.index_original_data)
            all == Requested(a.settings.index_all_values, a.new_settings.index_all_values)
        IN /\ r.saved # <<>> =>
                  /\ r.saved[1].index_original_data => r.saved[1].store_original_data
                  /\ ~(r.saved[1].index_original_data /\ r.saved[1].index_all_values)
                  /\ r.saved[1].index_original_data = index
                  /\ r.saved[1].index_all_values = all
           /\ (a.found /\ index /\ all) => (r.ret = "BadRequest(flags)" /\ r.saved = <<>>)

\* The request turns index_original_data on and store_original_data off:
\* the settings handed on have both on.
C36_Witness ==
    /\ Returned("update_stream_settings")
    /\ call.args.new_settings.index_original_data = <<TRUE>>
    /\ call.args.new_settings.store_original_data = <<FALSE>>
    /\ call.ret.saved # <<>>
    /\ call.ret.saved[1].store_original_data /\ call.ret.saved[1].index_original_data

\* The fields of a sequence of partition keys.
FieldsOf(keys) == {keys[i].field : i \in DOMAIN keys}

\* C37: a request naming a stored field with other types is refused and
\* nothing is written; otherwise every stored partition key is among the
\* written ones with its types, disabled when the request does not name
\* its field, and every requested field not stored before is among the
\* written ones.
C37_PartitionKeysKept ==
    Returned("save_stream_settings") =>
        LET a == call.args
            r == call.ret
            conflict == \E i \in DOMAIN a.old, j \in DOMAIN a.requested :
                            /\ a.old[i].field = a.requested[j].field
                            /\ a.old[i].types # a.requested[j].types
        IN /\ conflict => r.written = <<>>
           /\ (conflict /\ a.checks_ok) => r.ret = "BadRequest(partition types)"
           /\ r.written # <<>> =>
                  LET w == r.written[1]
                  IN /\ \A i \in DOMAIN a.old : \E j \in DOMAIN w :
                            /\ w[j].field = a.old[i].field /\ w[j].types = a.old[i].types
                            /\ a.old[i].field \notin FieldsOf(a.requested) => w[j].disabled
                     /\ FieldsOf(a.requested) \subseteq FieldsOf(w)
                     /\ FieldsOf(w) = FieldsOf(a.old) \cup FieldsOf(a.requested)

\* Stored: f enabled. Requested: g only. Written: f disabled, then g.
C37_Witness ==
    /\ Returned("save_stream_settings")
    /\ call.args.old = <<[field |-> "f", types |-> "hash", disabled |-> FALSE]>>
    /\ call.args.requested = <<[field |-> "g", types |-> "value", disabled |-> FALSE]>>
    /\ call.ret.written = <<<<[field |-> "f", types |-> "hash", disabled |-> TRUE],
                             [field |-> "g", types |-> "value", disabled |-> FALSE]>>>>

\* A remove() step after inserts of keys not held returns the entry of the
\* earliest inserted key still held; contains_key then answers false for
\* it and true for every other key held.
RemoveEvictsEarliest ==
    (/\ file_cache'.op = "remove"
     /\ file_cache.distinct
     /\ file_cache.inserted # <<>>)
    => /\ file_cache'.ret # <<>>
       /\ file_cache'.ret[1][1] = Head(file_cache.inserted)
       /\ file_cache'.inserted = Tail(file_cache.inserted)
       /\ ~strategy_contains_key(file_cache', Head(file_cache.inserted)).ret
       /\ \A k \in KeysIn(Tail(file_cache.inserted)) :
              strategy_contains_key(file_cache', k).ret

\* A contains_key step answers true exactly for the keys held.
ContainsKeyAnswersHeld ==
    (file_cache'.op = "contains_key" /\ file_cache.distinct)
    => /\ file_cache'.found = (file_cache'.arg \in KeysIn(file_cache.inserted))
       /\ file_cache'.inserted = file_cache.inserted

\* C38: as long as every insert was of a key not held, under LRU and under
\* FIFO alike, remove() returns the entry of the earliest inserted key still
\* held, whatever contains_key calls there were; afterwards contains_key
\* answers false for that key and true for every other key held.
C38_ContainsKeyDoesNotMarkUsed ==
    [][RemoveEvictsEarliest /\ ContainsKeyAnswersHeld]_vars

\* Under LRU, a then b were inserted, contains_key was asked for a, and
\* remove() has returned a: b is the only key held.
C38_Witness ==
    /\ file_cache.strategy = "lru"
    /\ file_cache.op = "remove"
    /\ file_cache.distinct
    /\ file_cache.ret # <<>> /\ file_cache.ret[1][1] = "a"
    /\ "a" \in file_cache.probed
    /\ file_cache.inserted = <<"b">>
    /\ strategy_contains_key(file_cache, "b").ret
    /\ ~strategy_contains_key(file_cache, "a").ret

\* The same under FIFO.
C38_WitnessFifo ==
    /\ file_cache.strategy = "fifo"
    /\ file_cache.op = "remove"
    /\ file_cache.distinct
    /\ file_cache.ret # <<>> /\ file_cache.ret[1][1] = "a"
    /\ "a" \in file_cache.probed
    /\ file_cache.inserted = <<"b">>

\* C39: under FIFO, after any insert, remove and remove_key calls,
\* contains_key(k) is true exactly when the queue holds an entry of k, and
\* len() is the number of distinct keys held.
C39_FifoSetAgreesWithQueue ==
    file_cache.strategy = "fifo" =>
        /\ \A k \in CacheKeys :
               strategy_contains_key(file_cache, k).ret
                   <=> \E i \in DOMAIN file_cache.queue : file_cache.queue[i][1] = k
        /\ strategy_len(file_cache)
               = Cardinality({file_cache.queue[i][1] : i \in DOMAIN file_cache.queue})

\* The delete attempts made so far that succeeded.
Succeeded(d) == {n \in DOMAIN d.attempts : d.attempts[n] = "Ok"}

\* C40: Local::delete makes at most three attempts and none after a
\* success; it returns success exactly when an attempt succeeded, and the
\* error of the third attempt when all three failed.
C40_AtMostThreeAttempts ==
    local_delete.pc # "idle" =>
        /\ Len(local_delete.attempts) <= 3
        /\ \A n \in Succeeded(local_delete) : n = Len(local_delete.attempts)
        /\ Succeeded(local_delete) # {} => local_delete.pc = "returned"
        /\ local_delete.pc = "returned" =>
               /\ (local_delete.result = "Ok") <=> (Succeeded(local_delete) # {})
               /\ Succeeded(local_delete) = {} =>
                      /\ Len(local_delete.attempts) = 3
                      /\ local_delete.result = local_delete.attempts[3]

\* Two attempts failed and the third succeeded: success is returned.
C40_Witness ==
    /\ local_delete.pc = "returned"
    /\ local_delete.attempts = <<"NotFound", "Generic", "Ok">>
    /\ local_delete.result = "Ok"

\* Three attempts failed: the error of the third is returned.
C40_WitnessAllFailed ==
    /\ local_delete.pc = "returned"
    /\ local_delete.attempts = <<"NotFound", "Generic", "PermissionDenied">>
    /\ local_delete.result = "PermissionDenied"

====
